---- MODULE Spec2Model ----
(***************************************************************************)
(* Speech-synthesis resolution and duration-synchronised video assembly    *)
(* of ai-ppt-converter.                                                    *)
(*                                                                         *)
(*   src/src/modules/tts_engine.py      text_to_speech, the engine chain,  *)
(*                                      the audio cache, the batch         *)
(*   src/src/modules/video_composer.py  create_video and its helpers       *)
(*   src/main.py                        process_single_ppt, signal_handler *)
(*                                                                         *)
(* Texts and paths are sequences of one-character strings.  An audio       *)
(* artifact is the record [engine, text, lang, ms] of what produced it and *)
(* of its length; the MD5 digest of the cache key is taken to be           *)
(* collision-free, so a key is the digested string itself.  Times are in   *)
(* milliseconds (1.0 s = 1000).                                            *)
(*                                                                         *)
(* Modelling assumption: an external synthesis engine, decoder or encoder  *)
(* may fail at any call, and so may the deletion of a directory tree;      *)
(* other operations on the local file system (mkdir, copy, move) succeed.  *)
(***************************************************************************)
EXTENDS Integers, Sequences, FiniteSets, TLC

VARIABLES
    platform,           \* platform.system() of the host
    TTS_CACHE_ENABLED,  \* tts_engine.py:46
    gTTS,               \* TRUE iff the gtts package could be imported (tts_engine.py:24-27)
    cache,              \* CACHE_DIR: cache key -> stored artifact
    files,              \* audio files written by the resolver: path -> artifact
    calls,              \* worker -> the text_to_speech call it is executing
    prev,               \* the call the sequential caller made before the current one
    nCalls,             \* number of text_to_speech calls made by the sequential caller
    batch,              \* the locals of text_to_speech_batch
    video,              \* the locals of create_video
    interrupted,        \* main.py:27, the flag the signal handler sets
    run,                \* the locals of process_single_ppt
    now,                \* int(time.time()), the clock in whole seconds
    decks,              \* deck -> the process_single_ppt run working on it
    disk,               \* temporary files: path -> the decks that wrote it
    probe               \* the arguments and results of functions applied on their own

\* the state of main.py
mainVars == <<interrupted, run>>

\* the state of concurrent runs and of the temporary directories
deckVars == <<now, decks, disk>>

vars == <<platform, TTS_CACHE_ENABLED, gTTS, cache, files, calls, prev, nCalls,
          batch, video, mainVars, deckVars, probe>>

\* ------------------------------------------------------------------------
\* Bounds
\* ------------------------------------------------------------------------
MaxCalls == 2
MaxSlides == 3
MaxDeck == 2
MaxClock == 2
MaxKeyLen == 3
MaxImages == 3
MaxTokens == 4

\* ------------------------------------------------------------------------
\* Text helpers
\* ------------------------------------------------------------------------
IsSpace(c) == c \in {" ", "\n"}

RECURSIVE LStrip(_)
LStrip(s) ==
    IF s = <<>> THEN s
    ELSE IF IsSpace(Head(s)) THEN LStrip(Tail(s)) ELSE s

RECURSIVE RStrip(_)
RStrip(s) ==
    IF s = <<>> THEN s
    ELSE IF IsSpace(s[Len(s)]) THEN RStrip(SubSeq(s, 1, Len(s) - 1)) ELSE s

\* str.strip()
Strip(s) == RStrip(LStrip(s))

\* index of the first "}" of s at or after position i, 0 if there is none
RECURSIVE FirstClose(_, _)
FirstClose(s, i) ==
    IF i > Len(s) THEN 0
    ELSE IF s[i] = "}" THEN i ELSE FirstClose(s, i + 1)

\* re.sub(r'\{[^}]+\}', '', text): leftmost non-overlapping matches of an
\* opening brace, one or more characters other than "}", and a closing brace
RECURSIVE RemoveMarkers(_)
RemoveMarkers(s) ==
    IF s = <<>> THEN <<>>
    ELSE IF Head(s) = "{"
         THEN LET j == FirstClose(s, 2) IN
              IF j > 2
              THEN RemoveMarkers(SubSeq(s, j + 1, Len(s)))
              ELSE <<Head(s)>> \o RemoveMarkers(Tail(s))
         ELSE <<Head(s)>> \o RemoveMarkers(Tail(s))

\* re.sub(r'\s+', ' ', text)
RECURSIVE CollapseSpaces(_)
CollapseSpaces(s) ==
    IF s = <<>> THEN <<>>
    ELSE IF IsSpace(Head(s))
         THEN <<" ">> \o CollapseSpaces(LStrip(s))
         ELSE <<Head(s)>> \o CollapseSpaces(Tail(s))

_clean_script_markers_KeepsMarkers(text) == Strip(CollapseSpaces(text))

\* _clean_script_markers (166-184)
_clean_script_markers(text) == Strip(CollapseSpaces(RemoveMarkers(text)))

\* hashlib.md5(f"{text}_{lang}") with the digest taken as injective
_get_cache_key(text, lang) == text \o <<"_">> \o lang

_get_cache_path(text, lang) == _get_cache_key(text, lang)

\* ------------------------------------------------------------------------
\* Inputs of the resolver
\* ------------------------------------------------------------------------
\* a script value that is not a string (the 'content' list of a script unit)
ListValue == <<"[list]">>

\* one element that stands for a run of 3000 letters, so that a text longer
\* than the limit of Edge TTS is a short sequence
LongRun == "a*3000"

\* shorter runs, for texts whose sentences end near the chunk limit
Run2799 == "a*2799"

Run1500 == "a*1500"

CharLen(ch) ==
    CASE ch = LongRun -> 3000
      [] ch = Run2799 -> 2799
      [] ch = Run1500 -> 1500
      [] OTHER -> 1

\* len(text)
RECURSIVE TextLen(_)
TextLen(text) ==
    IF text = <<>> THEN 0 ELSE CharLen(Head(text)) + TextLen(Tail(text))

\* tts_engine.py:270
MAX_CHARS == 3000

SampleTexts ==
    { <<>>,
      <<" ", "\n">>,
      <<"{", "p", "}">>,
      <<"a">>,
      <<" ", "a", "{", "p", "}">>,
      <<"b", "\n", " ", "c">>,
      <<"b", " ", "c">> }

\* texts over the length limit of Edge TTS
LongTexts == { <<"a", LongRun>> }

TTS_LANGUAGE == <<"z", "h">>

Languages == { TTS_LANGUAGE, <<"e", "n">> }

\* the return value None of text_to_speech; a path is a non-empty sequence
None == <<>>

OutPaths == { <<"o", "1">>, <<"o", "2">> }

Platforms == { "Darwin", "Linux", "Windows", "Other" }

Worker1 == 1

NoCall ==
    [ pc |-> "idle", raw |-> <<>>, lang |-> <<>>, out |-> None, text |-> <<>>,
      result |-> None, invoked |-> <<>>, hit |-> FALSE, checked |-> FALSE,
      stored |-> FALSE ]

NewCall(raw, out, lang) ==
    [ NoCall EXCEPT !.pc = "start", !.raw = raw, !.lang = lang, !.out = out ]

\* the length in milliseconds of the speech synthesised for a text, taken
\* here as a function of the text
SynthMs(text) == 1500 * Len(text)

Artifact(engine, c) ==
    [ engine |-> engine, text |-> c.text, lang |-> c.lang, ms |-> SynthMs(c.text) ]

\* ------------------------------------------------------------------------
\* text_to_speech (tts_engine.py:88-163), one action per step of the call
\* ------------------------------------------------------------------------
NothingToSynthesize_RawOnly(raw) ==
    \/ raw = <<>>
    \/ Strip(raw) = <<>>

\* lines 103-114: nothing to synthesise
NothingToSynthesize(raw) ==
    \/ raw = <<>>
    \/ Strip(raw) = <<>>
    \/ _clean_script_markers(Strip(raw)) = <<>>

\* the order of the chain, lines 127-163
FirstEngine == IF platform = "Darwin" THEN "say" ELSE "edge"

EngineAfter_NoStop(e) ==
    CASE e = "say" -> "gtts"
      [] e = "edge" -> "fallback"
      [] e = "gtts" -> "edge"

EngineAfter(e) ==
    CASE e = "say" -> "edge"
      [] e = "edge" -> "gtts"
      [] e = "gtts" -> "fallback"

Attempt(e, ok) == [ engine |-> e, ok |-> ok ]

Returned(c, path) == [ c EXCEPT !.pc = "returned", !.result = path ]

\* the program or service a step of the chain runs: say (line 210), Edge
\* TTS (line 281), gTTS (line 143), and in the fallback say on Darwin (line
\* 388), espeak on Linux (line 401) and PowerShell on Windows (line 422)
BackendOf(engine) ==
    CASE engine = "say" -> "say"
      [] engine = "edge" -> "edge-tts"
      [] engine = "gtts" -> "gTTS"
      [] engine = "fallback" ->
           CASE platform = "Darwin" -> "say"
             [] platform = "Linux" -> "espeak"
             [] platform = "Windows" -> "powershell"
             [] OTHER -> "none"

\* lines 103-114
TtsStart(w) ==
    /\ calls[w].pc = "start"
    /\ LET c == calls[w] IN
       IF c.raw = ListValue
       THEN \* text.strip() on a list raises AttributeError
            calls' = [calls EXCEPT ![w] = [c EXCEPT !.pc = "raised"]]
       ELSE IF NothingToSynthesize(c.raw)
       THEN calls' = [calls EXCEPT ![w] = Returned(c, None)]
       ELSE calls' = [calls EXCEPT ![w] =
                        [c EXCEPT !.pc = "cache",
                                  !.text = _clean_script_markers(Strip(c.raw))]]
    /\ UNCHANGED <<platform, TTS_CACHE_ENABLED, gTTS, cache, files, prev, nCalls, batch, video, mainVars, deckVars, probe>>

\* shutil.copy2 (line 150) creates the cache file and then writes its
\* content: while a call is in that copy the file exists (line 119) and
\* holds a prefix of the audio
BeingWritten(cache_key) ==
    \E i \in DOMAIN calls :
        /\ calls[i].pc = "storing"
        /\ _get_cache_path(calls[i].text, calls[i].lang) = cache_key

\* a file that holds only a prefix of an artifact
Truncated(a) == [ a EXCEPT !.engine = "corrupt", !.ms = 0 ]

ReadOfEntry_WaitsForWriter(cache_key) == { cache[cache_key] }

\* what the copy of line 123 reads from a cache file: the stored artifact,
\* or a prefix of it when the file is being written at that moment
ReadOfEntry(cache_key) ==
    IF BeingWritten(cache_key)
    THEN { cache[cache_key], Truncated(cache[cache_key]) }
    ELSE { cache[cache_key] }

\* lines 116-125
TtsCacheCheck(w) ==
    /\ calls[w].pc = "cache"
    /\ LET c == calls[w]
           cache_key == _get_cache_key(c.text, c.lang)
       IN
       IF TTS_CACHE_ENABLED
       THEN IF cache_key \in DOMAIN cache
            THEN /\ \E seen \in ReadOfEntry(cache_key) :
                       files' = (c.out :> seen) @@ files
                 /\ calls' = [calls EXCEPT ![w] =
                        [Returned(c, c.out) EXCEPT !.checked = TRUE, !.hit = TRUE]]
            ELSE /\ calls' = [calls EXCEPT ![w] =
                        [c EXCEPT !.pc = FirstEngine, !.checked = TRUE]]
                 /\ UNCHANGED files
       ELSE /\ calls' = [calls EXCEPT ![w] = [c EXCEPT !.pc = FirstEngine]]
            /\ UNCHANGED files
    /\ UNCHANGED <<platform, TTS_CACHE_ENABLED, gTTS, cache, prev, nCalls, batch, video, mainVars, deckVars, probe>>

\* lines 127-132 and _text_to_speech_say (187-237)
TtsSay(w) ==
    /\ calls[w].pc = "say"
    /\ \E ok \in BOOLEAN :
       LET c == [calls[w] EXCEPT !.invoked = Append(@, Attempt("say", ok))] IN
          IF ok
          THEN /\ files' = (c.out :> Artifact("say", c)) @@ files
               /\ calls' = [calls EXCEPT ![w] = Returned(c, c.out)]
          ELSE /\ calls' = [calls EXCEPT ![w] = [c EXCEPT !.pc = EngineAfter("say")]]
               /\ UNCHANGED files
    /\ UNCHANGED <<platform, TTS_CACHE_ENABLED, gTTS, cache, prev, nCalls, batch, video, mainVars, deckVars, probe>>

TtsEdge_Stores(w) ==
    /\ calls[w].pc = "edge"
    /\ \E ok \in BOOLEAN :
       LET c == [calls[w] EXCEPT !.invoked = Append(@, Attempt("edge", ok))] IN
          IF ok
          THEN /\ files' = (c.out :> Artifact("edge", c)) @@ files
               /\ cache' = IF TTS_CACHE_ENABLED
                           THEN (_get_cache_path(c.text, c.lang)
                                    :> Artifact("edge", c)) @@ cache
                           ELSE cache
               /\ calls' = [calls EXCEPT ![w] = Returned(c, c.out)]
          ELSE /\ calls' = [calls EXCEPT ![w] = [c EXCEPT !.pc = EngineAfter("edge")]]
               /\ UNCHANGED <<cache, files>>
    /\ UNCHANGED <<platform, TTS_CACHE_ENABLED, gTTS, prev, nCalls, batch, video, mainVars, deckVars, probe>>

\* what _text_to_speech_edge can do with a text: return the path, return
\* None (package missing, request failed, no chunk synthesised), or, for a
\* text over MAX_CHARS, raise from the export of line 364, which
\* _text_to_speech_edge_long (293-366) runs outside any try block
EdgeOutcomes(text) ==
    { "path", "none" } \cup (IF TextLen(text) > MAX_CHARS THEN { "raised" } ELSE {})

\* lines 134-137 and _text_to_speech_edge (240-290)
TtsEdge(w) ==
    /\ calls[w].pc = "edge"
    /\ \E outcome \in EdgeOutcomes(calls[w].text) :
       LET ok == outcome = "path"
           c == [calls[w] EXCEPT !.invoked = Append(@, Attempt("edge", ok))] IN
          CASE outcome = "path" ->
                 /\ files' = (c.out :> Artifact("edge", c)) @@ files
                 /\ calls' = [calls EXCEPT ![w] = Returned(c, c.out)]
            [] outcome = "none" ->
                 /\ calls' = [calls EXCEPT ![w] = [c EXCEPT !.pc = EngineAfter("edge")]]
                 /\ UNCHANGED files
            [] outcome = "raised" ->
                 /\ calls' = [calls EXCEPT ![w] = [c EXCEPT !.pc = "raised"]]
                 /\ UNCHANGED files
    /\ UNCHANGED <<platform, TTS_CACHE_ENABLED, gTTS, cache, prev, nCalls, batch, video, mainVars, deckVars, probe>>

\* lines 139-160; with the cache enabled the copy into the cache is begun
\* here (the file is created, cache holds what it will contain) and ends
\* in TtsStored
TtsGtts(w) ==
    /\ calls[w].pc = "gtts"
    /\ IF ~gTTS
       THEN \* line 160: gTTS is None, go on to the fallback
            /\ calls' = [calls EXCEPT ![w] = [@ EXCEPT !.pc = EngineAfter("gtts")]]
            /\ UNCHANGED <<cache, files>>
       ELSE \E ok \in BOOLEAN :
            LET c == [calls[w] EXCEPT !.invoked = Append(@, Attempt("gtts", ok))] IN
               IF ok
               THEN /\ files' = (c.out :> Artifact("gtts", c)) @@ files
                    /\ IF TTS_CACHE_ENABLED
                       THEN /\ cache' = (_get_cache_path(c.text, c.lang)
                                            :> Artifact("gtts", c)) @@ cache
                            /\ calls' = [calls EXCEPT ![w] =
                                   [c EXCEPT !.pc = "storing"]]
                       ELSE /\ calls' = [calls EXCEPT ![w] = Returned(c, c.out)]
                            /\ UNCHANGED cache
               ELSE /\ calls' = [calls EXCEPT ![w] =
                           [c EXCEPT !.pc = EngineAfter("gtts")]]
                    /\ UNCHANGED <<cache, files>>
    /\ UNCHANGED <<platform, TTS_CACHE_ENABLED, gTTS, prev, nCalls, batch, video, mainVars, deckVars, probe>>

\* lines 150-153: the copy into the cache is complete, the path is returned
TtsStored(w) ==
    /\ calls[w].pc = "storing"
    /\ calls' = [calls EXCEPT ![w] =
                   [Returned(calls[w], calls[w].out) EXCEPT !.stored = TRUE]]
    /\ UNCHANGED <<platform, TTS_CACHE_ENABLED, gTTS, cache, files, prev, nCalls, batch, video, mainVars, deckVars, probe>>

\* lines 162-163 and _text_to_speech_fallback (369-445); the conversion to
\* mp3 (_convert_audio_format, 448-472) may silently leave no output file
TtsFallback(w) ==
    /\ calls[w].pc = "fallback"
    /\ \E ok \in BOOLEAN :
       LET c == [calls[w] EXCEPT !.invoked = Append(@, Attempt("fallback", ok))] IN
          IF ok
          THEN \* lines 388-431: the utility ran; the path is returned whether
               \* or not the conversion produced the mp3 file
               /\ platform \in {"Darwin", "Linux", "Windows"}
               /\ \E converted \in BOOLEAN :
                     files' = IF converted
                              THEN (c.out :> Artifact("fallback", c)) @@ files
                              ELSE files
               /\ calls' = [calls EXCEPT ![w] = Returned(c, c.out)]
          ELSE \* lines 433-445: unsupported system, missing or failing utility
               /\ calls' = [calls EXCEPT ![w] = Returned(c, None)]
               /\ UNCHANGED files
    /\ UNCHANGED <<platform, TTS_CACHE_ENABLED, gTTS, cache, prev, nCalls, batch, video, mainVars, deckVars, probe>>

\* ------------------------------------------------------------------------
\* text_to_speech_batch (tts_engine.py:475-529)
\* ------------------------------------------------------------------------
MAX_WORKERS == 2

DigitChars == <<"0", "1", "2", "3", "4", "5", "6", "7", "8", "9">>

\* str(n) for n >= 0
RECURSIVE ToDigits(_)
ToDigits(n) ==
    IF n < 10 THEN <<DigitChars[n + 1]>>
    ELSE ToDigits(n \div 10) \o <<DigitChars[(n % 10) + 1]>>

RECURSIVE ZeroPad(_, _)
ZeroPad(s, width) == IF Len(s) >= width THEN s ELSE ZeroPad(<<"0">> \o s, width)

\* f"audio_{page_num:03d}.mp3" (line 502); a path is modelled by its stem
AudioPath(page_num) ==
    <<"a", "u", "d", "i", "o", "_">> \o ZeroPad(ToDigits(page_num), 3)

\* int(digits)
RECURSIVE ParseInt(_)
ParseInt(s) ==
    IF s = <<>> THEN 0
    ELSE 10 * ParseInt(SubSeq(s, 1, Len(s) - 1))
         + (CHOOSE d \in 0..9 : DigitChars[d + 1] = s[Len(s)])

\* index of the first "_" of s at or after position i, Len(s) + 1 if none
RECURSIVE NextUnderscore(_, _)
NextUnderscore(s, i) ==
    IF i > Len(s) THEN Len(s) + 1
    ELSE IF s[i] = "_" THEN i ELSE NextUnderscore(s, i + 1)

\* stem.split('_')[1]
SecondField(stem) ==
    LET i == NextUnderscore(stem, 1)
        j == NextUnderscore(stem, i + 1)
    IN SubSeq(stem, i + 1, j - 1)

\* the sort key of line 525: int(Path(x).stem.split('_')[1])
PageOf(path) == ParseInt(SecondField(path))

\* list.sort(key=PageOf): stable insertion of x into the sorted list
RECURSIVE InsertByPage(_, _)
InsertByPage(x, sorted) ==
    IF sorted = <<>> THEN <<x>>
    ELSE IF PageOf(x) < PageOf(Head(sorted))
         THEN <<x>> \o sorted
         ELSE <<Head(sorted)>> \o InsertByPage(x, Tail(sorted))

SortByPage_CompletionOrder(paths) == paths

RECURSIVE SortByPage(_)
SortByPage(paths) ==
    IF paths = <<>> THEN <<>>
    ELSE InsertByPage(paths[Len(paths)], SortByPage(SubSeq(paths, 1, Len(paths) - 1)))

\* line 496: script_data.get('script', '') or script_data.get('content', '')
ScriptText(script_data) ==
    IF script_data.script # <<>> THEN script_data.script ELSE script_data.content

\* lines 494-503: the task list, empty scripts skipped
RECURSIVE PrepareTasks(_, _)
PrepareTasks(scripts, idx) ==
    IF idx > Len(scripts) THEN <<>>
    ELSE LET script_text == ScriptText(scripts[idx]) IN
         (IF script_text = <<>>
          THEN <<>>
          ELSE << [ text |-> script_text,
                    output_path |-> AudioPath(scripts[idx].page),
                    idx |-> idx ] >>)
         \o PrepareTasks(scripts, idx + 1)

NoBatch ==
    [ pc |-> "idle", scripts |-> <<>>, tasks |-> <<>>, as_completed |-> <<>>,
      audio_files |-> <<>> ]

\* the futures the loop of lines 512-522 has consumed
Collected == { batch.as_completed[k] : k \in DOMAIN batch.as_completed }

Running(c) == c.pc \notin {"idle", "queued", "returned", "raised"}

Finished(c) == c.pc \in {"returned", "raised"}

\* lines 486-510: build the task list and submit every task to the executor
BatchSubmit ==
    /\ batch.pc = "called"
    /\ LET tasks == PrepareTasks(batch.scripts, 1) IN
       /\ batch' = [batch EXCEPT !.pc = "running", !.tasks = tasks]
       /\ calls' = [i \in 1..Len(tasks) |->
                      [NewCall(tasks[i].text, tasks[i].output_path, TTS_LANGUAGE)
                         EXCEPT !.pc = "queued"]]
    /\ UNCHANGED <<platform, TTS_CACHE_ENABLED, gTTS, cache, files, prev, nCalls, video, mainVars, deckVars, probe>>

BatchWorkerTakes_Unbounded(i) ==
    /\ batch.pc \in {"running", "unwinding"}
    /\ calls[i].pc = "queued"
    /\ \A j \in 1..(i - 1) : calls[j].pc # "queued"
    /\ calls' = [calls EXCEPT ![i] = [@ EXCEPT !.pc = "start"]]
    /\ UNCHANGED <<platform, TTS_CACHE_ENABLED, gTTS, cache, files, prev, nCalls, batch, video, mainVars, deckVars, probe>>

\* ThreadPoolExecutor(max_workers=MAX_WORKERS): a free worker thread takes
\* the oldest submitted task from the queue, also while an exception leaves
\* the with block (the executor then waits for every submitted task)
BatchWorkerTakes(i) ==
    /\ batch.pc \in {"running", "unwinding"}
    /\ calls[i].pc = "queued"
    /\ \A j \in 1..(i - 1) : calls[j].pc # "queued"
    /\ Cardinality({j \in DOMAIN calls : Running(calls[j])}) < MAX_WORKERS
    /\ calls' = [calls EXCEPT ![i] = [@ EXCEPT !.pc = "start"]]
    /\ UNCHANGED <<platform, TTS_CACHE_ENABLED, gTTS, cache, files, prev, nCalls, batch, video, mainVars, deckVars, probe>>

BatchCollect_KeepsFailures(i) ==
    /\ batch.pc = "running"
    /\ Finished(calls[i])
    /\ i \notin Collected
    /\ batch' = [batch EXCEPT
                   !.as_completed = Append(@, i),
                   !.audio_files = Append(@, calls[i].out)]
    /\ UNCHANGED <<platform, TTS_CACHE_ENABLED, gTTS, cache, files, calls, prev, nCalls, video, mainVars, deckVars, probe>>

\* lines 512-522: as_completed yields a finished future; its path is kept
\* when the call returned one, a None or an exception is only logged
BatchCollect(i) ==
    /\ batch.pc = "running"
    /\ Finished(calls[i])
    /\ i \notin Collected
    /\ batch' = [batch EXCEPT
                   !.as_completed = Append(@, i),
                   !.audio_files =
                       IF calls[i].pc = "returned" /\ calls[i].result # None
                       THEN Append(@, calls[i].result)
                       ELSE @]
    /\ UNCHANGED <<platform, TTS_CACHE_ENABLED, gTTS, cache, files, calls, prev, nCalls, video, mainVars, deckVars, probe>>

\* lines 524-529: every future was consumed; sort by page number and return
BatchReturn ==
    /\ batch.pc = "running"
    /\ Collected = DOMAIN calls
    /\ batch' = [batch EXCEPT !.pc = "done",
                              !.audio_files = SortByPage(batch.audio_files)]
    /\ UNCHANGED <<platform, TTS_CACHE_ENABLED, gTTS, cache, files, calls, prev, nCalls, video, mainVars, deckVars, probe>>

\* ------------------------------------------------------------------------
\* create_video (video_composer.py:48-136)
\* ------------------------------------------------------------------------
MinDurationMs == 1000
MaxDurationMs == 30000
DefaultDurationMs == 3000

Min(a, b) == IF a < b THEN a ELSE b
Max(a, b) == IF a > b THEN a ELSE b

ClampDuration_NoFloor(ms) == Min(MaxDurationMs, ms)

\* lines 161 and 165: max(1.0, min(30.0, duration))
ClampDuration(ms) == Max(MinDurationMs, Min(MaxDurationMs, ms))

\* AudioSegment.from_file / ffmpeg.probe raise on a file they cannot decode
Decodable(f) == f.engine # "corrupt"

DurationOf_MissingAsSilence(audio_file) ==
    IF audio_file \notin DOMAIN files
    THEN ClampDuration(0)
    ELSE IF Decodable(files[audio_file])
         THEN ClampDuration(files[audio_file].ms)
         ELSE DefaultDurationMs

\* one iteration of the loop of _calculate_durations_from_audio (151-170)
DurationOf(audio_file) ==
    IF audio_file \notin DOMAIN files
    THEN DefaultDurationMs
    ELSE IF Decodable(files[audio_file])
         THEN ClampDuration(files[audio_file].ms)
         ELSE DefaultDurationMs

\* _calculate_durations_from_audio (139-172)
_calculate_durations_from_audio(audio_files) ==
    [i \in 1..Len(audio_files) |-> DurationOf(audio_files[i])]

\* [x] * n
Repeat(x, n) == [i \in 1..n |-> x]

\* lines 81-82 for a non-empty audio list: pad with the last entry, truncate
AlignAudio(audio_files, ppt_images) ==
    SubSeq(audio_files
             \o Repeat(audio_files[Len(audio_files)],
                       Max(0, Len(ppt_images) - Len(audio_files))),
           1, Len(ppt_images))

NoVideo ==
    [ pc |-> "idle", ffmpeg |-> TRUE, ppt_images |-> <<>>, audio_files |-> <<>>,
      durations |-> <<>>, video_segments |-> <<>>, error |-> "", result |-> None,
      message |-> "",      \* what the raised exception reports
      encodes |-> <<>>,    \* the segment encodes run so far: [idx, ok]
      concats |-> 0,       \* number of concatenation runs
      concat_list |-> <<>>,  \* the segment files named in concat.txt, in order
      output |-> "absent", \* the file at output_path: "absent", "empty" or "valid"
      tagged |-> FALSE,    \* the file at output_path is the re-tagged copy
      tool_exit |-> "none",       \* how the tagging run ended: "zero", "nonzero",
                                  \* "error" when it could not be run
      metadata_result |-> "none", \* what add_metadata returned: "True" or "False"
      temp_dir |-> "unused" ]  \* video_segments directory: "unused", "present",
                               \* "deleted" or "undeletable"

OutputVideo == <<"o", "u", "t", "p", "u", "t">>

Raise(v, e, m) == [ v EXCEPT !.pc = "raised", !.error = e, !.message = m ]

\* what a produced video file can be
Products == { "empty", "valid" }

CvAlign_NoEmptyCheck ==
    /\ video.pc = "called"
    /\ video' =
         IF ~video.ffmpeg
         THEN Raise(video, "VideoCompositionError", "ffmpeg-python not installed")
         ELSE IF Len(video.audio_files) # Len(video.ppt_images)
         THEN IF video.audio_files = <<>>
              THEN Raise(video, "IndexError", "list index out of range")
              ELSE [video EXCEPT !.pc = "durations",
                                 !.audio_files = AlignAudio(@, video.ppt_images)]
         ELSE [video EXCEPT !.pc = "durations"]
    /\ UNCHANGED <<platform, TTS_CACHE_ENABLED, gTTS, cache, files, calls, prev,
                   nCalls, batch, mainVars, deckVars, probe>>

\* lines 73-87
CvAlign ==
    /\ video.pc = "called"
    /\ video' =
         IF ~video.ffmpeg
         THEN Raise(video, "VideoCompositionError", "ffmpeg-python not installed")
         ELSE IF video.ppt_images = <<>>
         THEN Raise(video, "VideoCompositionError", "image list is empty")
         ELSE IF Len(video.audio_files) # Len(video.ppt_images)
         THEN IF video.audio_files = <<>>
              THEN \* audio_files[-1] of an empty list, outside the try block
                   Raise(video, "IndexError", "list index out of range")
              ELSE [video EXCEPT !.pc = "durations",
                                 !.audio_files = AlignAudio(@, video.ppt_images)]
         ELSE [video EXCEPT !.pc = "durations"]
    /\ UNCHANGED <<platform, TTS_CACHE_ENABLED, gTTS, cache, files, calls, prev,
                   nCalls, batch, mainVars, deckVars, probe>>

\* lines 89-96
CvDurations ==
    /\ video.pc = "durations"
    /\ video' = [video EXCEPT
                   !.pc = "segments",
                   !.durations = _calculate_durations_from_audio(video.audio_files),
                   !.temp_dir = "present"]
    /\ UNCHANGED <<platform, TTS_CACHE_ENABLED, gTTS, cache, files, calls, prev,
                   nCalls, batch, mainVars, deckVars, probe>>

SegmentLength_WithoutShortest(duration, audio_ms) == Max(duration, audio_ms)

\* the command of lines 289-306: -loop 1 -t duration makes the image input
\* last duration, the audio input lasts its own length, and -shortest ends
\* the output with the shorter of the two
SegmentLength(duration, audio_ms) == Min(duration, audio_ms)

\* line 101: segment_{idx:03d}.mp4 in the segments directory, idx from 0
SegmentPath(idx) == <<"s", "e", "g">> \o ZeroPad(ToDigits(idx), 3)

CvSegment_RetriesFailure ==
    /\ video.pc = "segments"
    /\ Len(video.video_segments) < Len(video.ppt_images)
    /\ Len(video.encodes) <= Len(video.ppt_images)
    /\ LET idx == Len(video.video_segments) + 1
           audio_path == video.audio_files[idx]
       IN
       \E ok \in BOOLEAN :
          /\ ok => audio_path \in DOMAIN files
          /\ video' =
               IF ok
               THEN [video EXCEPT !.video_segments =
                        Append(@, [ image_path |-> video.ppt_images[idx],
                                    audio_path |-> audio_path,
                                    segment_path |-> SegmentPath(idx - 1),
                                    length |-> SegmentLength(video.durations[idx],
                                                             files[audio_path].ms),
                                    duration |-> video.durations[idx] ]),
                                  !.encodes = Append(@, [idx |-> idx, ok |-> TRUE])]
               ELSE [video EXCEPT !.encodes = Append(@, [idx |-> idx, ok |-> FALSE])]
    /\ UNCHANGED <<platform, TTS_CACHE_ENABLED, gTTS, cache, files, calls, prev,
                   nCalls, batch, mainVars, deckVars, probe>>

\* lines 98-109, one iteration: _create_video_segment_with_audio (268-315);
\* the encoder exits non-zero when it cannot open the audio file, and the
\* exception of line 315 reports "segment creation failed" with its stderr
CvSegment ==
    /\ video.pc = "segments"
    /\ Len(video.video_segments) < Len(video.ppt_images)
    /\ LET idx == Len(video.video_segments) + 1
           audio_path == video.audio_files[idx]
       IN
       \E ok \in BOOLEAN :
          /\ ok => audio_path \in DOMAIN files
          /\ video' =
               IF ok
               THEN [video EXCEPT !.video_segments =
                        Append(@, [ image_path |-> video.ppt_images[idx],
                                    audio_path |-> audio_path,
                                    segment_path |-> SegmentPath(idx - 1),
                                    length |-> SegmentLength(video.durations[idx],
                                                             files[audio_path].ms),
                                    duration |-> video.durations[idx] ]),
                                  !.encodes = Append(@, [idx |-> idx, ok |-> TRUE])]
               ELSE Raise([video EXCEPT !.encodes =
                                           Append(@, [idx |-> idx, ok |-> FALSE])],
                          "VideoCompositionError", "segment creation failed")
    /\ UNCHANGED <<platform, TTS_CACHE_ENABLED, gTTS, cache, files, calls, prev,
                   nCalls, batch, mainVars, deckVars, probe>>

ConcatList_NewestFirst(video_segments) ==
    [ k \in DOMAIN video_segments |->
        video_segments[Len(video_segments) + 1 - k].segment_path ]

\* lines 326-330: one line of concat.txt per entry of video_segments, in
\* the order of the list
ConcatList(video_segments) ==
    [ k \in DOMAIN video_segments |-> video_segments[k].segment_path ]

\* lines 111-113: _merge_video_segments (318-339) writes concat.txt and runs
\* the concatenation on it
CvMerge ==
    /\ video.pc = "segments"
    /\ Len(video.video_segments) = Len(video.ppt_images)
    /\ \E ok \in BOOLEAN :
          LET v == [video EXCEPT !.concats = @ + 1,
                                 !.concat_list = ConcatList(video.video_segments)]
          IN video' = IF ok
                      THEN [v EXCEPT !.pc = "merged"]
                      ELSE Raise(v, "VideoCompositionError", "concatenation failed")
    /\ UNCHANGED <<platform, TTS_CACHE_ENABLED, gTTS, cache, files, calls, prev,
                   nCalls, batch, mainVars, deckVars, probe>>

\* lines 115-117: the concatenated file is moved to output_path
CvMove ==
    /\ video.pc = "merged"
    /\ \E product \in Products :
          video' = [video EXCEPT !.pc = "moved", !.output = product]
    /\ UNCHANGED <<platform, TTS_CACHE_ENABLED, gTTS, cache, files, calls, prev,
                   nCalls, batch, mainVars, deckVars, probe>>

\* how a run of the tagging command can end: exit status 0, another exit
\* status, or an exception of subprocess.run (the command cannot be started)
ToolExits == { "zero", "nonzero", "error" }

add_metadata_ReplacesAnyway(v, exit, product) ==
    IF ~v.ffmpeg
    THEN Raise(v, "VideoCompositionError", "ffmpeg-python not installed")
    ELSE IF v.output = "absent"
    THEN Raise(v, "VideoCompositionError", "video file missing")
    ELSE CASE exit = "zero" ->
                [v EXCEPT !.pc = "tagged", !.tool_exit = exit,
                          !.output = product, !.tagged = TRUE,
                          !.metadata_result = "True"]
           [] exit = "nonzero" ->
                [v EXCEPT !.pc = "tagged", !.tool_exit = exit,
                          !.output = product, !.tagged = TRUE,
                          !.metadata_result = "False"]
           [] exit = "error" ->
                Raise([v EXCEPT !.tool_exit = exit],
                      "VideoCompositionError", "metadata failed")

\* add_metadata (447-520): the command writes a tagged copy next to the
\* video; on exit status 0 the copy is moved over the video and True is
\* returned (507-512), on another status False is returned and the video is
\* left alone (513-515), an exception of the run is raised again as
\* VideoCompositionError (517-519)
add_metadata(v, exit, product) ==
    IF ~v.ffmpeg
    THEN Raise(v, "VideoCompositionError", "ffmpeg-python not installed")
    ELSE IF v.output = "absent"
    THEN Raise(v, "VideoCompositionError", "video file missing")
    ELSE CASE exit = "zero" ->
                [v EXCEPT !.pc = "tagged", !.tool_exit = exit,
                          !.output = product, !.tagged = TRUE,
                          !.metadata_result = "True"]
           [] exit = "nonzero" ->
                [v EXCEPT !.pc = "tagged", !.tool_exit = exit,
                          !.metadata_result = "False"]
           [] exit = "error" ->
                Raise([v EXCEPT !.tool_exit = exit],
                      "VideoCompositionError", "metadata failed")

\* lines 119-121: create_video calls add_metadata with the title and does
\* not look at what it returns
CvMetadata ==
    /\ video.pc = "moved"
    /\ \E exit \in ToolExits, product \in Products :
          video' = add_metadata(video, exit, product)
    /\ UNCHANGED <<platform, TTS_CACHE_ENABLED, gTTS, cache, files, calls, prev,
                   nCalls, batch, mainVars, deckVars, probe>>

_cleanup_temp_files_Propagates(v, deleted) ==
    IF deleted
    THEN [v EXCEPT !.pc = "cleaned", !.temp_dir = "deleted"]
    ELSE Raise([v EXCEPT !.temp_dir = "undeletable"],
               "VideoCompositionError", "cleanup failed")

\* _cleanup_temp_files (523-535): shutil.rmtree inside try / except Exception
_cleanup_temp_files(v, deleted) ==
    [v EXCEPT !.pc = "cleaned",
              !.temp_dir = IF deleted THEN "deleted" ELSE "undeletable"]

\* lines 123-124
CvCleanup ==
    /\ video.pc = "tagged"
    /\ \E deleted \in BOOLEAN : video' = _cleanup_temp_files(video, deleted)
    /\ UNCHANGED <<platform, TTS_CACHE_ENABLED, gTTS, cache, files, calls, prev,
                   nCalls, batch, mainVars, deckVars, probe>>

OutputIsValid_ExistsOnly(v) == v.output # "absent"

\* line 129: output_path.exists() and output_path.stat().st_size > 0
OutputIsValid(v) == v.output = "valid"

\* lines 126-136
CvVerify ==
    /\ video.pc = "cleaned"
    /\ video' = IF OutputIsValid(video)
                THEN [video EXCEPT !.pc = "returned", !.result = OutputVideo]
                ELSE Raise(video, "VideoCompositionError", "output file invalid")
    /\ UNCHANGED <<platform, TTS_CACHE_ENABLED, gTTS, cache, files, calls, prev,
                   nCalls, batch, mainVars, deckVars, probe>>

\* ------------------------------------------------------------------------
\* process_single_ppt and the signal handler (main.py:26-44, 69-177)
\* ------------------------------------------------------------------------
NoRun ==
    [ pc |-> "idle",
      slides |-> <<>>,        \* what the script generator makes of each slide
      keep_temp |-> FALSE,
      ppt_images |-> <<>>,
      temp_dir |-> "absent",  \* ./tmp/ppt_<seconds>: "absent", "present" or "deleted"
      result |-> "none",      \* "True" or "False" once returned
      signal_at |-> "none",   \* where the run was when the signal arrived
      thread |-> "main" ]     \* the thread process_single_ppt runs on: "main",
                              \* or "worker" when a pool of decks runs it

NoProbe == [ pc |-> "idle" ]

\* ------------------------------------------------------------------------
\* A caller that resolves one text after another against the same cache
\* ------------------------------------------------------------------------
Init ==
    /\ platform \in Platforms
    /\ TTS_CACHE_ENABLED \in BOOLEAN
    /\ gTTS \in BOOLEAN
    /\ cache = <<>>
    /\ files = <<>>
    /\ calls = [w \in {Worker1} |-> NoCall]
    /\ prev = NoCall
    /\ nCalls = 0
    /\ batch = NoBatch
    /\ video = NoVideo
    /\ interrupted = FALSE
    /\ run = NoRun
    /\ now = 0
    /\ decks = <<>>
    /\ disk = <<>>
    /\ probe = NoProbe

Invoke(raw, out, lang) ==
    /\ calls[Worker1].pc \in {"idle", "returned"}
    /\ nCalls < MaxCalls
    /\ prev' = calls[Worker1]
    /\ calls' = [calls EXCEPT ![Worker1] = NewCall(raw, out, lang)]
    /\ nCalls' = nCalls + 1
    /\ UNCHANGED <<platform, TTS_CACHE_ENABLED, gTTS, cache, files, batch, video, mainVars, deckVars, probe>>

Next ==
    \/ \E raw \in SampleTexts, out \in OutPaths, lang \in Languages :
          Invoke(raw, out, lang)
    \/ TtsStart(Worker1)
    \/ TtsCacheCheck(Worker1)
    \/ TtsSay(Worker1)
    \/ TtsEdge(Worker1)
    \/ TtsGtts(Worker1)
    \/ TtsStored(Worker1)
    \/ TtsFallback(Worker1)

Spec == Init /\ [][Next]_vars

\* the same caller when its texts may exceed MAX_CHARS
NextLongText ==
    \/ \E raw \in SampleTexts \cup LongTexts, out \in OutPaths, lang \in Languages :
          Invoke(raw, out, lang)
    \/ TtsStart(Worker1)
    \/ TtsCacheCheck(Worker1)
    \/ TtsSay(Worker1)
    \/ TtsEdge(Worker1)
    \/ TtsGtts(Worker1)
    \/ TtsStored(Worker1)
    \/ TtsFallback(Worker1)

SpecLongText == Init /\ [][NextLongText]_vars

\* ------------------------------------------------------------------------
\* The synthesis and composition stages of process_single_ppt
\* (main.py:135-155) on a deck of up to MaxSlides slides
\* ------------------------------------------------------------------------
\* what the script generator made of a slide: a unit with a script, a unit
\* with an empty script and no content, a unit with an empty script and a
\* content list, or no unit at all (script_generator_natural.py:67-68)
SlideKinds == { "script", "empty", "list", "skipped" }

UnitOf(page, kind) ==
    [ page |-> page,
      script |-> IF kind = "script" THEN <<"a">> ELSE <<>>,
      content |-> IF kind = "list" THEN ListValue ELSE <<>> ]

RECURSIVE ScriptsOf(_, _)
ScriptsOf(kinds, index) ==
    IF index > Len(kinds) THEN <<>>
    ELSE (IF kinds[index] = "skipped" THEN <<>> ELSE <<UnitOf(index, kinds[index])>>)
         \o ScriptsOf(kinds, index + 1)

InitPipeline ==
    /\ platform \in {"Darwin", "Linux"}
    /\ TTS_CACHE_ENABLED = TRUE
    /\ gTTS = TRUE
    /\ cache = <<>>
    /\ files = <<>>
    /\ calls = <<>>
    /\ prev = NoCall
    /\ nCalls = 0
    /\ \E n \in 0..MaxSlides : \E kinds \in [1..n -> SlideKinds] :
          /\ batch = [NoBatch EXCEPT !.pc = "called", !.scripts = ScriptsOf(kinds, 1)]
          /\ video = [NoVideo EXCEPT !.ppt_images = [i \in 1..n |-> i]]
    /\ interrupted = FALSE
    /\ run = NoRun
    /\ now = 0
    /\ decks = <<>>
    /\ disk = <<>>
    /\ probe = NoProbe

\* main.py:145-155: the audio list of the batch is handed to create_video
CallCreateVideo ==
    /\ batch.pc = "done"
    /\ video.pc = "idle"
    /\ video' = [video EXCEPT !.pc = "called", !.audio_files = batch.audio_files]
    /\ UNCHANGED <<platform, TTS_CACHE_ENABLED, gTTS, cache, files, calls, prev,
                   nCalls, batch, mainVars, deckVars, probe>>

NextPipeline ==
    \/ BatchSubmit
    \/ \E i \in DOMAIN calls : BatchWorkerTakes(i)
    \/ \E i \in DOMAIN calls : TtsStart(i)
    \/ \E i \in DOMAIN calls : TtsCacheCheck(i)
    \/ \E i \in DOMAIN calls : TtsSay(i)
    \/ \E i \in DOMAIN calls : TtsEdge(i)
    \/ \E i \in DOMAIN calls : TtsGtts(i)
    \/ \E i \in DOMAIN calls : TtsStored(i)
    \/ \E i \in DOMAIN calls : TtsFallback(i)
    \/ \E i \in DOMAIN calls : BatchCollect(i)
    \/ BatchReturn
    \/ CallCreateVideo
    \/ CvAlign
    \/ CvDurations
    \/ CvSegment
    \/ CvMerge
    \/ CvMove
    \/ CvMetadata
    \/ CvCleanup
    \/ CvVerify

SpecPipeline == InitPipeline /\ [][NextPipeline]_vars

\* ------------------------------------------------------------------------
\* create_video called on arbitrary image and audio lists
\* ------------------------------------------------------------------------
AudioLengths == { 100, 500, 2000, 40000, 120000 }

\* an audio file on disk: a decodable one of some length, or an undecodable one
GivenFiles ==
    { [ engine |-> "given", text |-> <<>>, lang |-> <<>>, ms |-> ms ] :
        ms \in AudioLengths }
    \cup { [ engine |-> "corrupt", text |-> <<>>, lang |-> <<>>, ms |-> 0 ] }

InitVideo ==
    /\ platform = "Linux"
    /\ TTS_CACHE_ENABLED = TRUE
    /\ gTTS = TRUE
    /\ cache = <<>>
    /\ calls = <<>>
    /\ prev = NoCall
    /\ nCalls = 0
    /\ batch = NoBatch
    /\ \E n \in 0..MaxSlides, m \in 0..(MaxSlides + 1) :
       \E present \in SUBSET (1..m) :
          /\ files \in [{AudioPath(k) : k \in present} -> GivenFiles]
          /\ \E ffmpeg \in BOOLEAN :
                video = [NoVideo EXCEPT !.pc = "called",
                                        !.ffmpeg = ffmpeg,
                                        !.ppt_images = [i \in 1..n |-> i],
                                        !.audio_files = [k \in 1..m |-> AudioPath(k)]]
    /\ interrupted = FALSE
    /\ run = NoRun
    /\ now = 0
    /\ decks = <<>>
    /\ disk = <<>>
    /\ probe = NoProbe

NextVideo ==
    \/ CvAlign
    \/ CvDurations
    \/ CvSegment
    \/ CvMerge
    \/ CvMove
    \/ CvMetadata
    \/ CvCleanup
    \/ CvVerify

SpecVideo == InitVideo /\ [][NextVideo]_vars

\* ------------------------------------------------------------------------
\* One run of process_single_ppt (main.py:69-177) that a signal may
\* interrupt (main.py:31-44)
\* ------------------------------------------------------------------------
Return(r, value) == [ r EXCEPT !.pc = "returned", !.result = value ]

\* what the caller of process_single_ppt receives: the bool of lines 159,
\* 171 and 177, and nothing else
ReturnValue(r) == [ success |-> r.result ]

\* lines 104-111: extract_text_from_ppt raises on an unreadable deck
RunParse ==
    /\ run.pc = "parse"
    /\ \E ok \in BOOLEAN :
          run' = IF interrupted \/ ~ok
                 THEN Return(run, "False")
                 ELSE [run EXCEPT !.pc = "images"]
    /\ UNCHANGED <<platform, TTS_CACHE_ENABLED, gTTS, cache, files, calls, prev,
                   nCalls, batch, video, interrupted, deckVars, probe>>

\* lines 113-123: the run's working directory and one image per slide
RunImages ==
    /\ run.pc = "images"
    /\ \E ok \in BOOLEAN :
          run' = IF interrupted
                 THEN Return(run, "False")
                 ELSE IF ~ok
                 THEN Return([run EXCEPT !.temp_dir = "present"], "False")
                 ELSE [run EXCEPT !.pc = "script",
                                  !.temp_dir = "present",
                                  !.ppt_images = [i \in 1..Len(run.slides) |-> i]]
    /\ UNCHANGED <<platform, TTS_CACHE_ENABLED, gTTS, cache, files, calls, prev,
                   nCalls, batch, video, interrupted, deckVars, probe>>

\* lines 125-133: generate_natural_script
RunScript ==
    /\ run.pc = "script"
    /\ run' = IF interrupted
              THEN Return(run, "False")
              ELSE [run EXCEPT !.pc = "tts_call"]
    /\ UNCHANGED <<platform, TTS_CACHE_ENABLED, gTTS, cache, files, calls, prev,
                   nCalls, batch, video, interrupted, deckVars, probe>>

RunCallBatch_IgnoresFlag ==
    /\ run.pc = "tts_call"
    /\ run' = [run EXCEPT !.pc = "tts"]
    /\ batch' = [NoBatch EXCEPT !.pc = "called",
                                !.scripts = ScriptsOf(run.slides, 1)]
    /\ UNCHANGED <<platform, TTS_CACHE_ENABLED, gTTS, cache, files, calls, prev,
                   nCalls, video, interrupted, deckVars, probe>>

\* lines 135-141: text_to_speech_batch is called with the scripts
RunCallBatch ==
    /\ run.pc = "tts_call"
    /\ IF interrupted
       THEN /\ run' = Return(run, "False")
            /\ UNCHANGED batch
       ELSE /\ run' = [run EXCEPT !.pc = "tts"]
            /\ batch' = [NoBatch EXCEPT !.pc = "called",
                                        !.scripts = ScriptsOf(run.slides, 1)]
    /\ UNCHANGED <<platform, TTS_CACHE_ENABLED, gTTS, cache, files, calls, prev,
                   nCalls, video, interrupted, deckVars, probe>>

RunCallVideo_WithoutWaiting ==
    /\ run.pc = "tts"
    /\ batch.pc \in { "running", "done" }
    /\ IF interrupted
       THEN /\ run' = Return(run, "False")
            /\ UNCHANGED video
       ELSE /\ run' = [run EXCEPT !.pc = "video"]
            /\ video' = [NoVideo EXCEPT !.pc = "called",
                                        !.ppt_images = run.ppt_images,
                                        !.audio_files = batch.audio_files]
    /\ UNCHANGED <<platform, TTS_CACHE_ENABLED, gTTS, cache, files, calls, prev,
                   nCalls, batch, interrupted, deckVars, probe>>

\* lines 141-155: the batch returned; create_video is called with its list
RunCallVideo ==
    /\ run.pc = "tts"
    /\ batch.pc = "done"
    /\ IF interrupted
       THEN /\ run' = Return(run, "False")
            /\ UNCHANGED video
       ELSE /\ run' = [run EXCEPT !.pc = "video"]
            /\ video' = [NoVideo EXCEPT !.pc = "called",
                                        !.ppt_images = run.ppt_images,
                                        !.audio_files = batch.audio_files]
    /\ UNCHANGED <<platform, TTS_CACHE_ENABLED, gTTS, cache, files, calls, prev,
                   nCalls, batch, interrupted, deckVars, probe>>

\* lines 150-162 and 173-177: an exception of create_video is caught by
\* except Exception, a falsy result is a failure too
RunVideoDone ==
    /\ run.pc = "video"
    /\ video.pc \in { "returned", "raised" }
    /\ run' = IF video.pc = "raised" \/ video.result = None
              THEN Return(run, "False")
              ELSE [run EXCEPT !.pc = "cleanup"]
    /\ UNCHANGED <<platform, TTS_CACHE_ENABLED, gTTS, cache, files, calls, prev,
                   nCalls, batch, video, interrupted, deckVars, probe>>

\* lines 164-177: shutil.rmtree(temp_dir) runs inside the try block, so an
\* exception of it reaches the except clause of line 173
RunCleanup ==
    /\ run.pc = "cleanup"
    /\ \E deleted \in BOOLEAN :
          run' = IF run.keep_temp
                 THEN Return(run, "True")
                 ELSE IF deleted
                 THEN Return([run EXCEPT !.temp_dir = "deleted"], "True")
                 ELSE Return(run, "False")
    /\ UNCHANGED <<platform, TTS_CACHE_ENABLED, gTTS, cache, files, calls, prev,
                   nCalls, batch, video, interrupted, deckVars, probe>>

\* signal_handler (main.py:31-38): sets the flag, then sys.exit(1) raises
\* SystemExit in the main thread (Python runs signal handlers there), which
\* for a run on the main thread no except clause of
\* process_single_ppt or create_video catches; leaving the with block of
\* text_to_speech_batch waits for the submitted tasks
signal_handler ==
    /\ run.pc \in { "parse", "images", "script", "tts_call", "tts", "video", "cleanup" }
    /\ ~interrupted
    /\ interrupted' = TRUE
    /\ IF run.thread # "main"
       THEN \* SystemExit is raised in the main thread; the run goes on and
            \* meets the flag at its next boundary
            UNCHANGED <<run, batch, video>>
       ELSE IF run.pc = "tts" /\ batch.pc = "running"
       THEN /\ run' = [run EXCEPT !.pc = "exiting", !.signal_at = run.pc]
            /\ batch' = [batch EXCEPT !.pc = "unwinding"]
            /\ UNCHANGED video
       ELSE /\ run' = [run EXCEPT !.pc = "exited", !.signal_at = run.pc]
            /\ batch' = IF run.pc = "tts" /\ batch.pc = "called"
                        THEN [batch EXCEPT !.pc = "aborted"]
                        ELSE batch
            /\ video' = IF run.pc = "video" /\ video.pc \notin {"returned", "raised"}
                        THEN [video EXCEPT !.pc = "aborted"]
                        ELSE video
    /\ UNCHANGED <<platform, TTS_CACHE_ENABLED, gTTS, cache, files, calls, prev,
                   nCalls, deckVars, probe>>

\* the executor has no task left: SystemExit leaves text_to_speech_batch
\* and process_single_ppt, and the process exits with status 1
RunExit ==
    /\ run.pc = "exiting"
    /\ \A i \in DOMAIN calls : Finished(calls[i])
    /\ run' = [run EXCEPT !.pc = "exited"]
    /\ batch' = [batch EXCEPT !.pc = "aborted"]
    /\ UNCHANGED <<platform, TTS_CACHE_ENABLED, gTTS, cache, files, calls, prev,
                   nCalls, video, interrupted, deckVars, probe>>

InitMain ==
    /\ platform \in {"Darwin", "Linux"}
    /\ TTS_CACHE_ENABLED = TRUE
    /\ gTTS = TRUE
    /\ cache = <<>>
    /\ files = <<>>
    /\ calls = <<>>
    /\ prev = NoCall
    /\ nCalls = 0
    /\ batch = NoBatch
    /\ video = NoVideo
    /\ interrupted = FALSE
    /\ \E n \in 0..MaxDeck : \E kinds \in [1..n -> SlideKinds] :
       \E keep_temp \in BOOLEAN :
       \E thread \in { "main", "worker" } :
          run = [NoRun EXCEPT !.pc = "parse", !.slides = kinds,
                              !.keep_temp = keep_temp, !.thread = thread]
    /\ now = 0
    /\ decks = <<>>
    /\ disk = <<>>
    /\ probe = NoProbe

NextMain ==
    \/ RunParse
    \/ RunImages
    \/ RunScript
    \/ RunCallBatch
    \/ BatchSubmit
    \/ \E i \in DOMAIN calls : BatchWorkerTakes(i)
    \/ \E i \in DOMAIN calls : TtsStart(i)
    \/ \E i \in DOMAIN calls : TtsCacheCheck(i)
    \/ \E i \in DOMAIN calls : TtsSay(i)
    \/ \E i \in DOMAIN calls : TtsEdge(i)
    \/ \E i \in DOMAIN calls : TtsGtts(i)
    \/ \E i \in DOMAIN calls : TtsStored(i)
    \/ \E i \in DOMAIN calls : TtsFallback(i)
    \/ \E i \in DOMAIN calls : BatchCollect(i)
    \/ BatchReturn
    \/ RunCallVideo
    \/ CvAlign
    \/ CvDurations
    \/ CvSegment
    \/ CvMerge
    \/ CvMove
    \/ CvMetadata
    \/ CvCleanup
    \/ CvVerify
    \/ RunVideoDone
    \/ RunCleanup
    \/ signal_handler
    \/ RunExit

SpecMain == InitMain /\ [][NextMain]_vars

\* ------------------------------------------------------------------------
\* Two runs of process_single_ppt at the same time, as the thread pool of
\* batch_process (batch_processor.py:72-76) starts them, each on a deck of
\* one slide; what is followed is which temporary file each run writes and
\* deletes
\* ------------------------------------------------------------------------
DeckIds == { 1, 2 }

\* Path(ppt_path).stem of the two decks: files of one input directory
Stem(d) == IF d = 1 THEN "a" ELSE "b"

NoDeck == [ pc |-> "idle", temp_dir |-> <<"none", 0>> ]

\* main.py:117: Path("./tmp") / f"ppt_{int(time.time())}"
RunTempDir(seconds) == <<"tmp/ppt", seconds>>

\* video_composer.py:94: Path(PATH_TEMP_DIR) / "video_segments"
SegmentsDir == <<"temp/video_segments", 0>>

File(dir, name) == [ dir |-> dir, name |-> name ]

NoFile == [ writers |-> {}, deleters |-> {} ]

Entry(dsk, path) == IF path \in DOMAIN dsk THEN dsk[path] ELSE NoFile

\* deck d creates or overwrites the file
WriteFile(dsk, path, d) ==
    (path :> [Entry(dsk, path) EXCEPT !.writers = @ \cup {d}]) @@ dsk

\* shutil.rmtree(dir) by deck d: every file below dir goes
RemoveTree(dsk, dir, d) ==
    [ path \in DOMAIN dsk |->
        IF path.dir = dir
        THEN [dsk[path] EXCEPT !.deleters = @ \cup {d}]
        ELSE dsk[path] ]

DeckStep(d, from, to, dsk) ==
    /\ decks[d].pc = from
    /\ decks' = [decks EXCEPT ![d].pc = to]
    /\ disk' = dsk
    /\ UNCHANGED <<platform, TTS_CACHE_ENABLED, gTTS, cache, files, calls, prev,
                   nCalls, batch, video, mainVars, now, probe>>

\* time passes
Tick ==
    /\ now < MaxClock
    /\ now' = now + 1
    /\ UNCHANGED <<platform, TTS_CACHE_ENABLED, gTTS, cache, files, calls, prev,
                   nCalls, batch, video, mainVars, decks, disk, probe>>

\* main.py:117-118: the working directory is named after the current second
DeckMkdir(d) ==
    /\ decks[d].pc = "idle"
    /\ decks' = [decks EXCEPT ![d] = [pc |-> "images", temp_dir |-> RunTempDir(now)]]
    /\ UNCHANGED <<platform, TTS_CACHE_ENABLED, gTTS, cache, files, calls, prev,
                   nCalls, batch, video, mainVars, now, disk, probe>>

\* main.py:121, ppt_parser.py:213-268: <stem>_slide_<n>.png in the directory
DeckImages(d) ==
    DeckStep(d, "images", "audio",
             WriteFile(disk, File(decks[d].temp_dir, <<Stem(d), "_slide_1.png">>), d))

\* main.py:140-141, tts_engine.py:501-502: audio/audio_001.mp3 below it
DeckAudio(d) ==
    DeckStep(d, "audio", "segment",
             WriteFile(disk, File(decks[d].temp_dir, <<"audio", "audio_001.mp3">>), d))

\* video_composer.py:94-107
DeckSegment(d) ==
    DeckStep(d, "segment", "merge",
             WriteFile(disk, File(SegmentsDir, <<"", "segment_000.mp4">>), d))

\* video_composer.py:112-113 and 326-339: concat.txt and final_video.mp4
DeckMerge(d) ==
    DeckStep(d, "merge", "cleanup_segments",
             WriteFile(WriteFile(disk, File(SegmentsDir, <<"", "concat.txt">>), d),
                       File(SegmentsDir, <<"", "final_video.mp4">>), d))

\* video_composer.py:124 and 531-533
DeckCleanupSegments(d) ==
    DeckStep(d, "cleanup_segments", "cleanup", RemoveTree(disk, SegmentsDir, d))

\* main.py:165-168
DeckCleanupRun(d) ==
    DeckStep(d, "cleanup", "done", RemoveTree(disk, decks[d].temp_dir, d))

InitDecks ==
    /\ platform = "Linux"
    /\ TTS_CACHE_ENABLED = TRUE
    /\ gTTS = TRUE
    /\ cache = <<>>
    /\ files = <<>>
    /\ calls = <<>>
    /\ prev = NoCall
    /\ nCalls = 0
    /\ batch = NoBatch
    /\ video = NoVideo
    /\ interrupted = FALSE
    /\ run = NoRun
    /\ now = 0
    /\ decks = [d \in DeckIds |-> NoDeck]
    /\ disk = <<>>
    /\ probe = NoProbe

NextDecks ==
    \/ Tick
    \/ \E d \in DeckIds : DeckMkdir(d)
    \/ \E d \in DeckIds : DeckImages(d)
    \/ \E d \in DeckIds : DeckAudio(d)
    \/ \E d \in DeckIds : DeckSegment(d)
    \/ \E d \in DeckIds : DeckMerge(d)
    \/ \E d \in DeckIds : DeckCleanupSegments(d)
    \/ \E d \in DeckIds : DeckCleanupRun(d)

SpecDecks == InitDecks /\ [][NextDecks]_vars

\* ------------------------------------------------------------------------
\* _get_cache_key (tts_engine.py:59-70) applied to two requests
\* ------------------------------------------------------------------------
KeyChars == { "a", "_" }

\* every string of at most n characters
RECURSIVE StringsUpTo(_)
StringsUpTo(n) ==
    IF n = 0 THEN { <<>> }
    ELSE LET shorter == StringsUpTo(n - 1) IN
         shorter \cup { Append(t, ch) : t \in shorter, ch \in KeyChars }

\* a request: a text to speak and a language code, neither empty
KeyRequests ==
    [ text : StringsUpTo(MaxKeyLen) \ { <<>> },
      lang : StringsUpTo(MaxKeyLen) \ { <<>> } ]

InitKey ==
    /\ platform = "Linux"
    /\ TTS_CACHE_ENABLED = TRUE
    /\ gTTS = TRUE
    /\ cache = <<>>
    /\ files = <<>>
    /\ calls = <<>>
    /\ prev = NoCall
    /\ nCalls = 0
    /\ batch = NoBatch
    /\ video = NoVideo
    /\ interrupted = FALSE
    /\ run = NoRun
    /\ now = 0
    /\ decks = <<>>
    /\ disk = <<>>
    /\ \E first \in KeyRequests, second \in KeyRequests :
          probe = [ pc |-> "called", first |-> first, second |-> second,
                    keys |-> <<>> ]

\* one more of the two keys is computed
KeyApply ==
    /\ probe.pc = "called"
    /\ LET request == IF probe.keys = <<>> THEN probe.first ELSE probe.second
           keys == Append(probe.keys, _get_cache_key(request.text, request.lang))
       IN probe' = [probe EXCEPT !.keys = keys,
                                 !.pc = IF Len(keys) = 2 THEN "done" ELSE "called"]
    /\ UNCHANGED <<platform, TTS_CACHE_ENABLED, gTTS, cache, files, calls, prev,
                   nCalls, batch, video, mainVars, deckVars>>

NextKey == KeyApply

SpecKey == InitKey /\ [][NextKey]_vars

\* ------------------------------------------------------------------------
\* calculate_image_durations (video_composer.py:175-228) on one audio file
\* and a number of images; lengths are in milliseconds
\* ------------------------------------------------------------------------
ProbedLengths == { 0, 500, 2000, 15000, 60000 }

\* line 224: max(duration, 1.0)
MinShareMs == 1000

\* lines 222-223: random.uniform(-variation, variation) with variation a
\* tenth of the average; the ends and the middle of the interval
Variations(avg) == { 0 - (avg \div 10), 0, avg \div 10 }

RECURSIVE SumOf(_)
SumOf(seq) == IF seq = <<>> THEN 0 ELSE Head(seq) + SumOf(Tail(seq))

InitDurations ==
    /\ platform = "Linux"
    /\ TTS_CACHE_ENABLED = TRUE
    /\ gTTS = TRUE
    /\ cache = <<>>
    /\ files = <<>>
    /\ calls = <<>>
    /\ prev = NoCall
    /\ nCalls = 0
    /\ batch = NoBatch
    /\ video = NoVideo
    /\ interrupted = FALSE
    /\ run = NoRun
    /\ now = 0
    /\ decks = <<>>
    /\ disk = <<>>
    /\ \E total \in ProbedLengths, readable \in BOOLEAN,
          num_images \in (0 - 1)..MaxImages :
          probe = [ pc |-> "called", audio_ms |-> total, readable |-> readable,
                    num_images |-> num_images, total_duration |-> 0,
                    remaining |-> 0, durations |-> <<>> ]

\* lines 189-203: nothing to do for no image; else the length of the audio
\* is read, which raises when the file cannot be read
DurationsStart ==
    /\ probe.pc = "called"
    /\ probe' = IF probe.num_images <= 0
                THEN [probe EXCEPT !.pc = "returned"]
                ELSE IF ~probe.readable
                THEN [probe EXCEPT !.pc = "raised"]
                ELSE [probe EXCEPT !.pc = "loop",
                                   !.total_duration = probe.audio_ms,
                                   !.remaining = probe.audio_ms]
    /\ UNCHANGED <<platform, TTS_CACHE_ENABLED, gTTS, cache, files, calls, prev,
                   nCalls, batch, video, mainVars, deckVars>>

DurationsStep_LastGetsAverage ==
    /\ probe.pc = "loop"
    /\ LET avg_duration == probe.total_duration \div probe.num_images
           last == Len(probe.durations) = probe.num_images - 1
       IN \E variation \in Variations(avg_duration) :
             LET duration == Max(avg_duration + variation, MinShareMs)
             IN probe' = [probe EXCEPT
                            !.durations = Append(@, duration),
                            !.remaining = @ - duration,
                            !.pc = IF last THEN "returned" ELSE "loop"]
    /\ UNCHANGED <<platform, TTS_CACHE_ENABLED, gTTS, cache, files, calls, prev,
                   nCalls, batch, video, mainVars, deckVars>>

\* lines 205-228: one pass of the loop; every image but the last gets the
\* average with its variation, at least one second, and the last one gets
\* what remains
DurationsStep ==
    /\ probe.pc = "loop"
    /\ LET avg_duration == probe.total_duration \div probe.num_images
           last == Len(probe.durations) = probe.num_images - 1
       IN IF last
          THEN probe' = [probe EXCEPT !.durations = Append(@, probe.remaining),
                                      !.pc = "returned"]
          ELSE \E variation \in Variations(avg_duration) :
                  LET duration == Max(avg_duration + variation, MinShareMs)
                  IN probe' = [probe EXCEPT !.durations = Append(@, duration),
                                            !.remaining = @ - duration]
    /\ UNCHANGED <<platform, TTS_CACHE_ENABLED, gTTS, cache, files, calls, prev,
                   nCalls, batch, video, mainVars, deckVars>>

NextDurations ==
    \/ DurationsStart
    \/ DurationsStep

SpecDurations == InitDurations /\ [][NextDurations]_vars

\* ------------------------------------------------------------------------
\* ScriptGenerator.generate_script (script_generator.py:189-278) on a list
\* of slide dictionaries
\* ------------------------------------------------------------------------
\* a slide dictionary: its title, and whether building its script goes
\* through ("content", "empty": with or without bullet points) or raises
\* inside the try block ("malformed", e.g. a title that is not a string)
SlideData ==
    [ title : { "t1", "t2" }, kind : { "content", "empty", "malformed" } ]

RECURSIVE SeqsUpTo(_, _)
SeqsUpTo(S, n) ==
    IF n = 0 THEN { <<>> }
    ELSE LET shorter == SeqsUpTo(S, n - 1) IN
         shorter \cup { Append(q, x) : q \in shorter, x \in S }

InitScript ==
    /\ platform = "Linux"
    /\ TTS_CACHE_ENABLED = TRUE
    /\ gTTS = TRUE
    /\ cache = <<>>
    /\ files = <<>>
    /\ calls = <<>>
    /\ prev = NoCall
    /\ nCalls = 0
    /\ batch = NoBatch
    /\ video = NoVideo
    /\ interrupted = FALSE
    /\ run = NoRun
    /\ now = 0
    /\ decks = <<>>
    /\ disk = <<>>
    /\ \E slides_data \in SeqsUpTo(SlideData, MaxSlides) :
          probe = [ pc |-> "called", slides_data |-> slides_data,
                    scripts |-> <<>> ]

\* lines 207-211
GenerateStart ==
    /\ probe.pc = "called"
    /\ probe' = [probe EXCEPT !.pc = IF probe.slides_data = <<>>
                                     THEN "returned" ELSE "loop"]
    /\ UNCHANGED <<platform, TTS_CACHE_ENABLED, gTTS, cache, files, calls, prev,
                   nCalls, batch, video, mainVars, deckVars>>

GenerateStep_StopsAtFailedSlide ==
    /\ probe.pc = "loop"
    /\ LET index == Len(probe.scripts)
           slide_data == probe.slides_data[index + 1]
           scripts == Append(probe.scripts,
                             [ page |-> index + 1,
                               title |-> slide_data.title,
                               script |-> "generated" ])
       IN probe' = IF slide_data.kind = "malformed"
                   THEN [probe EXCEPT !.pc = "returned"]
                   ELSE [probe EXCEPT
                           !.scripts = scripts,
                           !.pc = IF Len(scripts) = Len(probe.slides_data)
                                  THEN "returned" ELSE "loop"]
    /\ UNCHANGED <<platform, TTS_CACHE_ENABLED, gTTS, cache, files, calls, prev,
                   nCalls, batch, video, mainVars, deckVars>>

\* lines 213-276: one pass of the loop appends the unit of the slide at
\* index, the generated script (259-264) or, when anything in the try block
\* raised, the default sentence (266-275)
GenerateStep ==
    /\ probe.pc = "loop"
    /\ LET index == Len(probe.scripts)
           slide_data == probe.slides_data[index + 1]
           scripts == Append(probe.scripts,
                             [ page |-> index + 1,
                               title |-> slide_data.title,
                               script |-> IF slide_data.kind = "malformed"
                                          THEN "default" ELSE "generated" ])
       IN probe' = [probe EXCEPT
                      !.scripts = scripts,
                      !.pc = IF Len(scripts) = Len(probe.slides_data)
                             THEN "returned" ELSE "loop"]
    /\ UNCHANGED <<platform, TTS_CACHE_ENABLED, gTTS, cache, files, calls, prev,
                   nCalls, batch, video, mainVars, deckVars>>

NextScript ==
    \/ GenerateStart
    \/ GenerateStep

SpecScript == InitScript /\ [][NextScript]_vars

\* ------------------------------------------------------------------------
\* _text_to_speech_edge_long (tts_engine.py:293-366) on a text longer than
\* MAX_CHARS
\* ------------------------------------------------------------------------
\* line 318: the chunk limit, MAX_CHARS less a margin
CHUNK_LIMIT == 2800

\* line 361: AudioSegment.silent(duration=200)
SILENCE_MS == 200

\* the sentence-terminal marks of the pattern of line 314; its three
\* full-width marks are split at in the same way as the three ASCII ones
IsTerminal(ch) == ch \in { ".", "!", "?" }

\* what the sample texts are made of
Tokens == { Run2799, Run1500, ".", "!", " " }

\* line 314: re.split on the marks, with a group: the pieces between the marks,
\* each followed by its mark; a piece may be empty
RECURSIVE ReSplit(_)
ReSplit(text) ==
    IF text = <<>> THEN << <<>> >>
    ELSE LET rest == ReSplit(Tail(text)) IN
         IF IsTerminal(Head(text))
         THEN << <<>>, <<Head(text)>> >> \o rest
         ELSE << <<Head(text)>> \o Head(rest) >> \o Tail(rest)

RECURSIVE Accumulate_DropsLongPart(_, _, _)
Accumulate_DropsLongPart(parts, current, segments) ==
    LET closed == IF current # <<>> THEN Append(segments, current) ELSE segments IN
    IF parts = <<>> THEN closed
    ELSE LET part == Head(parts) IN
         IF TextLen(current) + TextLen(part) < CHUNK_LIMIT
         THEN Accumulate_DropsLongPart(Tail(parts), current \o part, segments)
         ELSE Accumulate_DropsLongPart(Tail(parts),
                  IF TextLen(part) < CHUNK_LIMIT THEN part ELSE <<>>, closed)

\* lines 315-327: a piece joins the current chunk while the chunk stays
\* under the limit, else the chunk is closed and the piece begins the next
RECURSIVE Accumulate(_, _, _)
Accumulate(parts, current, segments) ==
    LET closed == IF current # <<>> THEN Append(segments, current) ELSE segments IN
    IF parts = <<>> THEN closed
    ELSE LET part == Head(parts) IN
         IF TextLen(current) + TextLen(part) < CHUNK_LIMIT
         THEN Accumulate(Tail(parts), current \o part, segments)
         ELSE Accumulate(Tail(parts), part, closed)

Speech(segment) ==
    [ kind |-> "speech", of |-> segment, ms |-> SynthMs(segment) ]

Silence == [ kind |-> "silence", of |-> <<>>, ms |-> SILENCE_MS ]

\* lines 357-362: merged = merged + silence + audio, for every audio after
\* the first
RECURSIVE Merge(_)
Merge(audio_segments) ==
    IF Len(audio_segments) <= 1 THEN audio_segments
    ELSE Merge(SubSeq(audio_segments, 1, Len(audio_segments) - 1))
         \o << Silence, audio_segments[Len(audio_segments)] >>

InitEdgeLong ==
    /\ platform = "Linux"
    /\ TTS_CACHE_ENABLED = TRUE
    /\ gTTS = TRUE
    /\ cache = <<>>
    /\ files = <<>>
    /\ calls = <<>>
    /\ prev = NoCall
    /\ nCalls = 0
    /\ batch = NoBatch
    /\ video = NoVideo
    /\ interrupted = FALSE
    /\ run = NoRun
    /\ now = 0
    /\ decks = <<>>
    /\ disk = <<>>
    /\ \E text \in { t \in SeqsUpTo(Tokens, MaxTokens) : TextLen(t) > MAX_CHARS },
          installed \in BOOLEAN :
          probe = [ pc |-> "called", text |-> text, installed |-> installed,
                    segments |-> <<>>, i |-> 0, sent |-> <<>>,
                    audio_segments |-> <<>>, merged |-> <<>>, result |-> None ]

\* lines 305-327: without edge_tts or pydub nothing is done; else the text
\* is cut into chunks
EdgeLongSplit ==
    /\ probe.pc = "called"
    /\ probe' = IF ~probe.installed
                THEN [probe EXCEPT !.pc = "returned"]
                ELSE [probe EXCEPT !.pc = "chunks",
                                   !.segments = Accumulate(ReSplit(probe.text),
                                                           <<>>, <<>>)]
    /\ UNCHANGED <<platform, TTS_CACHE_ENABLED, gTTS, cache, files, calls, prev,
                   nCalls, batch, video, mainVars, deckVars>>

\* lines 331-352, one pass: a chunk that is blank after strip() is passed
\* over; else it is sent to the engine, and its audio is kept unless the
\* call or the decoding raised, which is only logged
EdgeLongChunk ==
    /\ probe.pc = "chunks"
    /\ probe.i < Len(probe.segments)
    /\ LET segment == Strip(probe.segments[probe.i + 1]) IN
       IF segment = <<>>
       THEN probe' = [probe EXCEPT !.i = @ + 1]
       ELSE \E ok \in BOOLEAN :
               probe' = [probe EXCEPT
                           !.i = @ + 1,
                           !.sent = Append(@, segment),
                           !.audio_segments =
                               IF ok THEN Append(@, Speech(segment)) ELSE @]
    /\ UNCHANGED <<platform, TTS_CACHE_ENABLED, gTTS, cache, files, calls, prev,
                   nCalls, batch, video, mainVars, deckVars>>

\* lines 354-366: no audio at all is a failure; else the audios are joined
\* with silences and exported, outside any try block
EdgeLongMerge ==
    /\ probe.pc = "chunks"
    /\ probe.i = Len(probe.segments)
    /\ IF probe.audio_segments = <<>>
       THEN probe' = [probe EXCEPT !.pc = "returned"]
       ELSE \E exported \in BOOLEAN :
               probe' = IF exported
                        THEN [probe EXCEPT !.pc = "returned",
                                           !.merged = Merge(probe.audio_segments),
                                           !.result = OutputVideo]
                        ELSE [probe EXCEPT !.pc = "raised"]
    /\ UNCHANGED <<platform, TTS_CACHE_ENABLED, gTTS, cache, files, calls, prev,
                   nCalls, batch, video, mainVars, deckVars>>

NextEdgeLong ==
    \/ EdgeLongSplit
    \/ EdgeLongChunk
    \/ EdgeLongMerge

SpecEdgeLong == InitEdgeLong /\ [][NextEdgeLong]_vars

\* ========================================================================
\* Properties
\* ========================================================================
TheCall == calls[Worker1]

\* rank of an engine in the documented priority order
Rank(e) ==
    CASE e = "say" -> 1
      [] e = "edge" -> 2
      [] e = "gtts" -> 3
      [] e = "fallback" -> 4

\* C1: after a text_to_speech call that missed the cache and returned a
\* path, the cache holds an entry under the key of (cleaned text, language),
\* whichever engine produced the audio.
C1_CacheHoldsEntryAfterMiss ==
    \A w \in DOMAIN calls :
        LET c == calls[w] IN
        (/\ TTS_CACHE_ENABLED
         /\ c.pc = "returned"
         /\ ~c.hit
         /\ c.result # None)
        => _get_cache_key(c.text, c.lang) \in DOMAIN cache

\* C2: if text_to_speech(t, l) succeeded, a second text_to_speech(t, l) is
\* served from the cache, invokes no engine and writes output identical to
\* the cached artifact.
C2_SecondCallServedFromCache ==
    (/\ TTS_CACHE_ENABLED
     /\ prev.pc = "returned"
     /\ prev.result # None
     /\ TheCall.pc = "returned"
     /\ TheCall.raw = prev.raw
     /\ TheCall.lang = prev.lang)
    => /\ TheCall.hit
       /\ TheCall.invoked = <<>>
       /\ TheCall.result = TheCall.out
       /\ _get_cache_key(TheCall.text, TheCall.lang) \in DOMAIN cache
       /\ files[TheCall.out] = cache[_get_cache_key(TheCall.text, TheCall.lang)]

BlankText(raw) ==
    \A i \in 1..Len(RemoveMarkers(raw)) : IsSpace(RemoveMarkers(raw)[i])

C4_BlankTextReturnsNoneUntouched ==
    \A w \in DOMAIN calls :
        LET c == calls[w] IN
        (c.pc \notin {"idle", "start"} /\ c.raw # ListValue /\ BlankText(c.raw))
        => /\ c.pc = "returned"
           /\ c.result = None
           /\ ~c.checked
           /\ ~c.stored
           /\ c.invoked = <<>>

C4_Witness ==
    /\ TheCall.pc = "returned"
    /\ TheCall.raw = <<"{", "p", "}">>
    /\ TheCall.result = None
    /\ cache # <<>>

\* the page of the script unit whose task writes the given path
UnitPage(path) ==
    LET i == CHOOSE i \in DOMAIN batch.tasks : batch.tasks[i].output_path = path
    IN batch.scripts[batch.tasks[i].idx].page

TaskSucceeded(i) == calls[i].pc = "returned" /\ calls[i].result # None

TaskFailed(i) == calls[i].pc = "raised" \/ (calls[i].pc = "returned" /\ calls[i].result = None)

Occurrences(x, seq) == Cardinality({k \in DOMAIN seq : seq[k] = x})

\* C5: text_to_speech_batch returns its audio paths in strictly increasing
\* page-number order, whatever the order in which the tasks completed.
C5_BatchReturnsInPageOrder ==
    batch.pc = "done"
    => \A i, j \in DOMAIN batch.audio_files :
          i < j => UnitPage(batch.audio_files[i]) < UnitPage(batch.audio_files[j])

C5_Witness ==
    /\ batch.pc = "done"
    /\ Len(batch.audio_files) = 3
    /\ batch.as_completed = <<3, 1, 2>>

\* C6: the batch returns exactly one path for each unit whose resolution
\* succeeded and none for a unit that returned None or raised; every unit
\* with a script is resolved even when other units fail.
C6_BatchKeepsExactlyTheSuccesses ==
    batch.pc = "done"
    => /\ Len(batch.tasks) =
             Cardinality({u \in DOMAIN batch.scripts :
                             batch.scripts[u].script # <<>>
                             \/ batch.scripts[u].content # <<>>})
       /\ DOMAIN calls = DOMAIN batch.tasks
       /\ \A i \in DOMAIN calls :
             /\ TaskSucceeded(i) \/ TaskFailed(i)
             /\ Occurrences(batch.tasks[i].output_path, batch.audio_files)
                  = IF TaskSucceeded(i) THEN 1 ELSE 0
       /\ Len(batch.audio_files) =
             Cardinality({i \in DOMAIN calls : TaskSucceeded(i)})

C6_Witness ==
    /\ batch.pc = "done"
    /\ Len(batch.tasks) = 3
    /\ calls[1].pc = "raised"
    /\ calls[2].pc = "returned" /\ calls[2].result = None /\ calls[2].invoked # <<>>
    /\ TaskSucceeded(3)
    /\ batch.as_completed[3] = 3
    /\ batch.audio_files = <<batch.tasks[3].output_path>>

\* C7: for every non-empty image list and every audio list (shorter, equal,
\* longer or empty) the alignment of create_video completes and leaves
\* exactly one audio entry per image.
C7_AlignmentPairsEverySlide ==
    (/\ video.pc \notin {"idle", "called"}
     /\ video.ffmpeg
     /\ video.ppt_images # <<>>)
    => /\ video.error # "IndexError"
       /\ Len(video.audio_files) = Len(video.ppt_images)

\* the task of the script unit of a page, 0 if the page has none
TaskOfPage(page) ==
    IF \E i \in DOMAIN batch.tasks : batch.scripts[batch.tasks[i].idx].page = page
    THEN CHOOSE i \in DOMAIN batch.tasks : batch.scripts[batch.tasks[i].idx].page = page
    ELSE 0

PageSucceeded(page) == TaskOfPage(page) # 0 /\ TaskSucceeded(TaskOfPage(page))

PageFailed(page) == TaskOfPage(page) # 0 /\ TaskFailed(TaskOfPage(page))

\* C8: a slide whose unit failed synthesis is paired in segment building
\* with the audio of the nearest preceding slide whose unit succeeded.
C8_FailedSlideGetsNearestPriorAudio ==
    \A k \in DOMAIN video.video_segments :
        \A j \in 1..(k - 1) :
            (/\ PageFailed(k)
             /\ PageSucceeded(j)
             /\ \A h \in (j + 1)..(k - 1) : ~PageSucceeded(h))
            => video.video_segments[k].audio_path = batch.tasks[TaskOfPage(j)].output_path

\* C9: every slide duration lies in [1.0 s, 30.0 s]; a measured length m
\* gives max(1.0, min(30.0, m)), and the fallback value is in the range too.
C9_DurationsClamped ==
    \A i \in DOMAIN video.durations :
        LET d == video.durations[i]
            f == video.audio_files[i]
        IN
        /\ d >= 1000
        /\ d <= 30000
        /\ (f \in DOMAIN files /\ files[f].engine # "corrupt")
             => d = (IF files[f].ms < 1000 THEN 1000
                     ELSE IF files[f].ms > 30000 THEN 30000
                     ELSE files[f].ms)

C9_Witness ==
    /\ Len(video.audio_files) = 3
    /\ \A i \in 1..3 : video.audio_files[i] \in DOMAIN files
    /\ files[video.audio_files[1]].ms = 2000
    /\ files[video.audio_files[2]].ms = 40000
    /\ files[video.audio_files[3]].ms = 500
    /\ \A i \in 1..3 : files[video.audio_files[i]].engine = "given"
    /\ video.durations = <<2000, 30000, 1000>>

Unreadable(f) == f \notin DOMAIN files \/ files[f].engine = "corrupt"

\* C10: the duration calculator gives a missing or unreadable audio file
\* the default of 3.0 s and does not raise.
C10_UnreadableAudioGetsDefault ==
    [][video.pc = "durations"
       => /\ video'.pc = "segments"
          /\ Len(video'.durations) = Len(video.audio_files)
          /\ \A i \in DOMAIN video.audio_files :
                Unreadable(video.audio_files[i]) => video'.durations[i] = 3000]_vars

C10_Witness ==
    /\ video.pc = "segments"
    /\ Len(video.durations) = 3
    /\ video.audio_files[1] \notin DOMAIN files
    /\ video.audio_files[2] \in DOMAIN files
    /\ files[video.audio_files[2]].engine = "corrupt"
    /\ video.audio_files[3] \in DOMAIN files
    /\ files[video.audio_files[3]].engine = "given"
    /\ video.durations[1] = 3000
    /\ video.durations[2] = 3000
    /\ video.durations[3] # 3000

\* create_video got past its argument checks and has ended
VideoEnded == video.pc \in { "returned", "raised" }

\* some audio path create_video works on names no file
SomeAudioMissing ==
    /\ video.ffmpeg
    /\ video.ppt_images # <<>>
    /\ video.audio_files # <<>>
    /\ \E i \in DOMAIN video.audio_files : video.audio_files[i] \notin DOMAIN files

\* C11: create_video called with an audio path that does not exist raises
\* VideoCompositionError, and the error reports that the audio file does
\* not exist.
C11_MissingAudioIsReported ==
    (VideoEnded /\ SomeAudioMissing)
    => /\ video.pc = "raised"
       /\ video.error = "VideoCompositionError"
       /\ video.message = "audio file does not exist"

\* C12: when the encode of a slide's segment fails, create_video raises
\* VideoCompositionError at once: that encode is the last one run (no retry
\* of the slide, no later slide), every earlier slide has its segment (none
\* skipped), no concatenation is run and no path is returned.
C12_SegmentFailureIsFatal ==
    \A k \in DOMAIN video.encodes :
        ~video.encodes[k].ok
        => /\ video.pc = "raised"
           /\ video.error = "VideoCompositionError"
           /\ k = Len(video.encodes)
           /\ \A j \in 1..(k - 1) : /\ video.encodes[j].ok
                                    /\ video.encodes[j].idx = j
           /\ video.encodes[k].idx = k
           /\ Len(video.video_segments) = k - 1
           /\ video.concats = 0
           /\ video.result = None

\* the second of three slides failed to encode
C12_Witness ==
    /\ video.pc = "raised"
    /\ Len(video.ppt_images) = 3
    /\ Len(video.encodes) = 2
    /\ video.encodes[1].ok
    /\ ~video.encodes[2].ok
    /\ video.audio_files[2] \in DOMAIN files

\* C13: create_video returns the output path only when the file at that
\* path exists and is not empty; in every other case in which it ends it
\* has raised VideoCompositionError, and process_single_ppt then returns
\* False.
C13_ReturnsOnlyAValidOutput ==
    /\ video.pc = "returned"
       => /\ video.result = OutputVideo
          /\ video.output = "valid"
    /\ video.pc = "raised"
       => /\ video.error = "VideoCompositionError"
          /\ run.pc = "returned" => run.result = "False"

\* C14: a run whose video was produced reports success, whether or not the
\* temporary segment directory and the run's working directory could be
\* deleted.
C14_CleanupFailureIsOnlyLogged ==
    (run.pc = "returned" /\ video.pc = "returned")
    => run.result = "True"

\* C15: a signal only sets the flag: no stage is cut short, the process
\* does not exit from inside a stage, and the run ends by returning False
\* at a stage boundary.
C15_InterruptIsCooperative ==
    interrupted
    => /\ video.pc # "aborted"
       /\ batch.pc \notin { "unwinding", "aborted" }
       /\ run.pc \notin { "exiting", "exited" }
       /\ run.pc = "returned" => run.result = "False"

\* C16: two runs at the same time never share a temporary directory or a
\* temporary file: no file is written by both, and no run deletes a file
\* the other wrote.
C16_TemporaryFilesArePrivate ==
    /\ \A d, e \in DOMAIN decks :
          (d # e /\ decks[d].pc # "idle" /\ decks[e].pc # "idle")
          => decks[d].temp_dir # decks[e].temp_dir
    /\ \A path \in DOMAIN disk :
          Cardinality(disk[path].writers \cup disk[path].deleters) <= 1

C18_KeyIdentifiesTextAndLanguage ==
    probe.pc = "done"
    => (probe.keys[1] = probe.keys[2] <=> probe.first = probe.second)

\* a control marker: an opening brace, at least one character other than a
\* closing brace, and a closing brace
HasMarker(t) ==
    \E i \in 1..Len(t) : t[i] = "{" /\ FirstClose(t, i + 1) > i + 1

\* no whitespace at either end, and no whitespace but single spaces inside
Normalised(t) ==
    /\ t # <<>> => (~IsSpace(t[1]) /\ ~IsSpace(t[Len(t)]))
    /\ \A i \in 1..Len(t) : IsSpace(t[i]) => t[i] = " "
    /\ \A i \in 1..(Len(t) - 1) : ~(IsSpace(t[i]) /\ IsSpace(t[i + 1]))

\* number of characters before the first whitespace of t
RECURSIVE WordLen(_)
WordLen(t) ==
    IF t = <<>> \/ IsSpace(Head(t)) THEN 0 ELSE 1 + WordLen(Tail(t))

\* the words of t
RECURSIVE Lexemes(_)
Lexemes(t) ==
    LET rest == LStrip(t) IN
    IF rest = <<>> THEN <<>>
    ELSE <<SubSeq(rest, 1, WordLen(rest))>>
         \o Lexemes(SubSeq(rest, WordLen(rest) + 1, Len(rest)))

\* the spoken words of a raw text: its words once the markers are taken out
Spoken(raw) == Lexemes(RemoveMarkers(raw))

SpeaksCleanText(artifact) ==
    /\ ~HasMarker(artifact.text)
    /\ Normalised(artifact.text)

\* C19: the text a call looks up in the cache and hands to the engines is
\* the cleaned raw text (no control marker, single spaces, trimmed, the same
\* words), every audio file and cache entry was made from such a text and
\* is stored under its key, and a call whose raw text has the same words as
\* the raw text of an earlier call that stored its audio is served from the
\* cache.
C19_KeyAndEnginesUseCleanedText ==
    /\ \A w \in DOMAIN calls :
          LET c == calls[w] IN
          (c.checked \/ c.invoked # <<>>)
          => /\ ~HasMarker(c.text)
             /\ Normalised(c.text)
             /\ Lexemes(c.text) = Spoken(c.raw)
    /\ \A path \in DOMAIN files : SpeaksCleanText(files[path])
    /\ \A key \in DOMAIN cache :
          /\ SpeaksCleanText(cache[key])
          /\ key = _get_cache_key(cache[key].text, cache[key].lang)
    /\ (/\ prev.stored
        /\ TheCall.checked
        /\ TheCall.lang = prev.lang
        /\ Spoken(TheCall.raw) = Spoken(prev.raw))
       => TheCall.hit

\* a text with a marker was stored, and a different raw text with the same
\* words was then served from the cache
C19_Witness ==
    /\ prev.stored
    /\ HasMarker(prev.raw)
    /\ TheCall.raw # prev.raw
    /\ TheCall.hit
    /\ TheCall.pc = "returned"

\* C20: within one text_to_speech call no synthesis backend (the say
\* utility, Edge TTS, gTTS, the command-line utility of the platform) is
\* run twice, whatever the host platform.
C20_EachBackendAtMostOnce ==
    \A w \in DOMAIN calls :
        LET invoked == calls[w].invoked IN
        \A i, j \in DOMAIN invoked :
            (i < j /\ BackendOf(invoked[i].engine) # "none")
            => BackendOf(invoked[i].engine) # BackendOf(invoked[j].engine)

\* every engine the call tried has failed
AllEnginesFailed(c) ==
    /\ c.invoked # <<>>
    /\ \A i \in DOMAIN c.invoked : ~c.invoked[i].ok

\* C21: a text_to_speech call that has tried an engine never raises; when
\* every engine it tried has failed and it has ended, it returned None and
\* stored nothing in the cache.
C21_EngineFailureNeverRaises ==
    \A w \in DOMAIN calls :
        LET c == calls[w] IN
        /\ c.invoked # <<>> => c.pc # "raised"
        /\ (c.pc = "returned" /\ AllEnginesFailed(c))
           => /\ c.result = None
              /\ ~c.stored

\* the units of the batch that have a script to speak
NonEmptyUnits == { u \in DOMAIN batch.scripts : ScriptText(batch.scripts[u]) # <<>> }

\* C22: while text_to_speech_batch runs, at most MAX_WORKERS resolver calls
\* are in progress; there is exactly one call for each unit with a script,
\* made with that unit's text, and when the batch returns each of these
\* calls has ended and was collected exactly once.
C22_WorkersBoundedUnitsResolvedOnce ==
    /\ Cardinality({i \in DOMAIN calls : Running(calls[i])}) <= MAX_WORKERS
    /\ batch.pc \in {"running", "done"}
       => /\ DOMAIN calls = DOMAIN batch.tasks
          /\ { batch.tasks[i].idx : i \in DOMAIN batch.tasks } = NonEmptyUnits
          /\ \A i, j \in DOMAIN batch.tasks :
                i # j => batch.tasks[i].idx # batch.tasks[j].idx
          /\ \A i \in DOMAIN calls :
                /\ calls[i].raw = ScriptText(batch.scripts[batch.tasks[i].idx])
                /\ calls[i].pc # "idle"
    /\ batch.pc = "done"
       => \A i \in DOMAIN calls :
             /\ Finished(calls[i])
             /\ Occurrences(i, batch.as_completed) = 1

\* three units were submitted, two are being resolved and the third waits
C22_Witness ==
    /\ batch.pc = "running"
    /\ Len(batch.tasks) = 3
    /\ Cardinality({i \in DOMAIN calls : Running(calls[i])}) = MAX_WORKERS
    /\ calls[3].pc = "queued"

\* the units of the run whose synthesis failed
DroppedUnits == { i \in DOMAIN calls : TaskFailed(i) }

\* C23: when a run has ended with the video produced and at least one
\* narration synthesised, its caller receives success together with the
\* number of slides processed and the number of slides dropped, the latter
\* being the number of units whose synthesis failed.
C23_SuccessIsReportedWithCounts ==
    (/\ run.pc = "returned"
     /\ video.pc = "returned"
     /\ batch.audio_files # <<>>)
    => LET value == ReturnValue(run) IN
       /\ value.success = "True"
       /\ "processed" \in DOMAIN value
       /\ "dropped" \in DOMAIN value
       /\ value.processed = Len(run.ppt_images)
       /\ value.dropped = Cardinality(DroppedUnits)

\* the synthesis stage failed: the batch had units to resolve and returned
\* no audio at all
SynthesisFailed ==
    /\ batch.pc = "done"
    /\ DOMAIN calls # {}
    /\ batch.audio_files = <<>>

\* C24: process_single_ppt answers the failure of a stage with False, and
\* starts no later stage after the failed one: create_video is not called
\* after a synthesis that produced nothing, a run whose composition raised
\* returns False, and True is returned only after every stage succeeded.
C24_FailedStageEndsTheRun ==
    /\ SynthesisFailed => video.pc = "idle"
    /\ (run.pc = "returned" /\ (SynthesisFailed \/ video.pc = "raised"))
          => run.result = "False"
    /\ (run.pc = "returned" /\ run.result = "True")
          => /\ video.pc = "returned"
             /\ batch.audio_files # <<>>
             /\ run.ppt_images # <<>>

\* create_video has left its entry checks without having done any work: no
\* segments directory, no duration measured, no encoder or concatenation run
NothingDoneByCreateVideo ==
    /\ video.temp_dir = "unused"
    /\ video.durations = <<>>
    /\ video.video_segments = <<>>
    /\ video.encodes = <<>>
    /\ video.concats = 0
    /\ video.output = "absent"

\* C25 as stated: create_video called with an empty image list raises
\* VideoCompositionError reporting the empty image list, before any work.
C25_EmptyImagesAlwaysReportedAsEmpty ==
    (video.ppt_images = <<>> /\ video.pc \notin {"idle", "called"})
    => /\ video.pc = "raised"
       /\ video.error = "VideoCompositionError"
       /\ video.message = "image list is empty"
       /\ NothingDoneByCreateVideo

\* C25: create_video called with an empty image list raises
\* VideoCompositionError before any temporary directory is created, any
\* duration is measured or any external process is run; the error reports
\* the empty image list when the ffmpeg binding is installed, and the
\* missing binding otherwise.
C25_EmptyImagesRaiseBeforeAnyWork ==
    (video.ppt_images = <<>> /\ video.pc \notin {"idle", "called"})
    => /\ video.pc = "raised"
       /\ video.error = "VideoCompositionError"
       /\ video.message = IF video.ffmpeg THEN "image list is empty"
                                          ELSE "ffmpeg-python not installed"
       /\ NothingDoneByCreateVideo

C25_Witness ==
    /\ video.pc = "raised"
    /\ video.ppt_images = <<>>
    /\ video.audio_files # <<>>
    /\ video.ffmpeg
    /\ video.message = "image list is empty"

\* what add_metadata returned and whether the video is the re-tagged copy
\* agree with the exit status of the tagging command
MetadataResultMatchesExit ==
    /\ video.metadata_result = "True" <=> video.tool_exit = "zero"
    /\ video.tagged <=> video.tool_exit = "zero"
    /\ video.tool_exit = "nonzero" => video.metadata_result = "False"
    /\ video.metadata_result = "False" => video.tool_exit = "nonzero"

C27_DurationsAddUpToTheAudio ==
    probe.pc = "returned"
    => IF probe.num_images <= 0
       THEN probe.durations = <<>>
       ELSE /\ Len(probe.durations) = probe.num_images
            /\ SumOf(probe.durations) = probe.audio_ms

\* three images on an audio shorter than their floors: the last share is
\* what remains, here a negative length
C27_Witness ==
    /\ probe.pc = "returned"
    /\ Len(probe.durations) = 3
    /\ probe.durations[1] = MinShareMs
    /\ probe.durations[3] < 0

\* C28: generate_script returns one script unit per input slide, in the
\* order of the slides and with page equal to the position (1..n), also
\* when building the script of some slide raised; for an empty input it
\* returns the empty list.
C28_OneUnitPerSlideInOrder ==
    probe.pc = "returned"
    => /\ Len(probe.scripts) = Len(probe.slides_data)
       /\ \A i \in DOMAIN probe.scripts :
             /\ probe.scripts[i].page = i
             /\ probe.scripts[i].title = probe.slides_data[i].title
             /\ probe.scripts[i].script = "default"
                   <=> probe.slides_data[i].kind = "malformed"

C28_Witness ==
    /\ probe.pc = "returned"
    /\ Len(probe.slides_data) = 3
    /\ probe.slides_data[2].kind = "malformed"
    /\ probe.slides_data[1].title # probe.slides_data[3].title
    /\ probe.scripts[3].script = "generated"

\* C29: every slide whose script unit was synthesised is paired, in segment
\* building, with the audio made for its own page, whatever happened to the
\* units of the slides before it.
C29_SlideKeepsItsOwnAudio ==
    \A k \in DOMAIN video.video_segments :
        PageSucceeded(k)
        => video.video_segments[k].audio_path = batch.tasks[TaskOfPage(k)].output_path

\* C30: with several workers resolving the same text and language at the
\* same time, what a cache hit copies to the output is a completely stored
\* artifact, never an entry that another worker is still writing.
C30_HitServesACompleteEntry ==
    \A w \in DOMAIN calls :
        (calls[w].hit /\ calls[w].pc = "returned")
        => /\ calls[w].out \in DOMAIN files
           /\ files[calls[w].out]
                 = cache[_get_cache_path(calls[w].text, calls[w].lang)]

\* C31: create_video begins only after every synthesis task of the deck has
\* finished (no worker is still resolving a unit while durations are
\* measured, segments built or the video assembled), and the segments are
\* then encoded one after the other in slide order.
C31_CompositionFollowsSynthesis ==
    /\ video.pc # "idle"
          => /\ batch.pc = "done"
             /\ \A i \in DOMAIN calls : Finished(calls[i])
             /\ Collected = DOMAIN calls
    /\ \A k \in DOMAIN video.encodes : video.encodes[k].idx = k
    /\ \A k \in DOMAIN video.video_segments :
          video.video_segments[k].image_path = video.ppt_images[k]

C31_Witness ==
    /\ run.pc = "video"
    /\ video.pc = "segments"
    /\ Len(video.encodes) = 2
    /\ Cardinality(DOMAIN calls) = 2
    /\ \E i \in DOMAIN calls : TaskFailed(i)

\* C32: whenever the concatenation runs, concat.txt names exactly one
\* segment per slide image, in slide order: the k-th line is the segment
\* encoded from the k-th image, none is missing, repeated or out of place.
C32_ConcatListFollowsTheSlides ==
    video.concats > 0
    => /\ Len(video.concat_list) = Len(video.ppt_images)
       /\ \A k \in DOMAIN video.concat_list :
             /\ video.concat_list[k] = SegmentPath(k - 1)
             /\ video.video_segments[k].image_path = video.ppt_images[k]
             /\ video.video_segments[k].segment_path = video.concat_list[k]
       /\ \A j, k \in DOMAIN video.concat_list :
             j # k => video.concat_list[j] # video.concat_list[k]

C32_Witness ==
    /\ video.pc = "merged"
    /\ Len(video.concat_list) = 3
    /\ Len(video.ppt_images) = 3
    /\ video.audio_files[2] = video.audio_files[3]

\* the places where process_single_ppt looks at the flag: before parsing,
\* image conversion, script generation, synthesis and video composition
AtStageBoundary ==
    \/ run.pc \in { "parse", "images", "script", "tts_call" }
    \/ run.pc = "tts" /\ batch.pc = "done"

\* C33: when the flag is set as process_single_ppt passes a stage boundary,
\* it returns False there and starts none of the stages that follow: no
\* working directory, image, batch or video is made by that step.
C33_SetFlagStopsAtTheBoundary ==
    [][(interrupted /\ AtStageBoundary /\ run' # run)
         => /\ run'.pc = "returned"
            /\ run'.result = "False"
            /\ run'.temp_dir = run.temp_dir
            /\ run'.ppt_images = run.ppt_images
            /\ batch' = batch
            /\ video' = video]_vars

\* a run on a worker thread met the flag at the boundary before the video
C33_Witness ==
    /\ interrupted
    /\ run.thread = "worker"
    /\ run.pc = "returned"
    /\ run.result = "False"
    /\ batch.pc = "done"
    /\ batch.audio_files # <<>>
    /\ video.pc = "idle"

\* C34: when process_single_ppt returns with keep_temp false, after a
\* success or after a failure at any stage, neither the working directory
\* of the run nor the segments directory of create_video still exists.
C34_NoTemporaryDirectoryOutlivesTheRun ==
    (run.pc = "returned" /\ ~run.keep_temp)
    => /\ run.temp_dir # "present"
       /\ video.temp_dir \notin { "present", "undeletable" }

\* the splitter has run
HasSplit == probe.pc # "called" /\ probe.installed

\* C35: for a text longer than the limit of Edge TTS, every chunk the
\* long-text path sends to the engine has fewer than 2800 characters,
\* whatever the length of the sentences.
C35_EveryChunkUnderTheLimit ==
    /\ HasSplit => \A k \in DOMAIN probe.segments :
                      TextLen(probe.segments[k]) < CHUNK_LIMIT
    /\ \A k \in DOMAIN probe.sent : TextLen(probe.sent[k]) < CHUNK_LIMIT

\* C36: every boundary between two consecutive chunks falls immediately
\* after a sentence-terminal mark: no chunk but the last ends inside a
\* sentence, and none begins with the mark of the sentence before it.
C36_ChunksEndAtSentenceMarks ==
    HasSplit
    => \A k \in 1..(Len(probe.segments) - 1) :
          LET chunk == probe.segments[k] IN IsTerminal(chunk[Len(chunk)])

\* the chunks that are not blank, stripped, in order
RECURSIVE SpokenChunks(_)
SpokenChunks(segments) ==
    IF segments = <<>> THEN <<>>
    ELSE (IF Strip(Head(segments)) = <<>> THEN <<>>
          ELSE << Speech(Strip(Head(segments))) >>)
         \o SpokenChunks(Tail(segments))

\* C37: when the long-text path reports success, the audio it wrote is the
\* audio of every non-blank chunk, in the order of the text, with exactly
\* one silence of 200 ms between neighbours.
C37_SuccessCarriesEveryChunk ==
    (probe.pc = "returned" /\ probe.result # None)
    => probe.merged = Merge(SpokenChunks(probe.segments))

RECURSIVE Concat(_)
Concat(seqs) == IF seqs = <<>> THEN <<>> ELSE Head(seqs) \o Concat(Tail(seqs))

\* C38: the chunks of the splitter, put together in order, are the input
\* text: the split drops, repeats and moves no character.
C38_ChunksReproduceTheText ==
    HasSplit => Concat(probe.segments) = probe.text

\* a split into two chunks, the first one a sentence over the limit
C38_Witness ==
    /\ HasSplit
    /\ Len(probe.segments) = 2
    /\ TextLen(probe.segments[1]) > CHUNK_LIMIT
    /\ IsTerminal(probe.segments[2][1])

\* C39: the segment of every slide lasts min(slide duration, length of its
\* audio): it never outlasts its own audio and never exceeds the clamped
\* duration of the slide.
C39_SegmentLastsTheShorterOfImageAndAudio ==
    \A k \in DOMAIN video.video_segments :
        LET segment == video.video_segments[k]
            audio_ms == files[video.audio_files[k]].ms
        IN /\ segment.audio_path = video.audio_files[k]
           /\ segment.length <= audio_ms
           /\ segment.length <= video.durations[k]
           /\ segment.length <= MaxDurationMs
           /\ segment.length = audio_ms \/ segment.length = video.durations[k]

\* one segment cut by the end of a short audio, one by the 30 s ceiling
C39_Witness ==
    /\ Len(video.video_segments) = 2
    /\ video.video_segments[1].length < video.durations[1]
    /\ video.video_segments[2].length = MaxDurationMs
    /\ files[video.audio_files[2]].ms > MaxDurationMs

\* C40: every duration calculate_image_durations returns is at least one
\* second, for every audio length and every number of images, the last
\* image, which gets the remaining time, included.
C40_EveryShareAtLeastOneSecond ==
    probe.pc = "returned"
    => \A k \in DOMAIN probe.durations : probe.durations[k] >= MinShareMs
====
